---- MODULE Spec2Model ----
(***************************************************************************)
(* Compost Coordinator: the business-logic calculator (src/calculator.js). *)
(*                                                                         *)
(* JavaScript Numbers are modelled as extended rationals [n, d]:           *)
(*   d > 0          the finite value n/d in lowest terms                   *)
(*   n = 1,  d = 0  Infinity                                               *)
(*   n = -1, d = 0  -Infinity                                              *)
(*   n = 0,  d = 0  NaN                                                    *)
(* Arithmetic is exact: binary64 rounding and the sign of zero are not     *)
(* modelled, a decimal literal such as 6.7 stands for 67/10.               *)
(***************************************************************************)
EXTENDS Integers, Sequences, FiniteSets, TLC

\* ------------------------------------------------------------------
\* Numbers
\* ------------------------------------------------------------------

Abs(i) == IF i < 0 THEN -i ELSE i

Sign(i) == IF i < 0 THEN -1 ELSE IF i > 0 THEN 1 ELSE 0

RECURSIVE GCD(_, _)
GCD(a, b) == IF b = 0 THEN a ELSE GCD(b, a % b)

\* n/d brought to the canonical form described above
Norm(n, d) ==
    IF d = 0 THEN [n |-> Sign(n), d |-> 0]
    ELSE LET g == GCD(Abs(n), Abs(d))
             s == Sign(d)
         IN  [n |-> (s * n) \div g, d |-> (s * d) \div g]

R(i) == [n |-> i, d |-> 1]

Frac(n, d) == Norm(n, d)

NaN == [n |-> 0, d |-> 0]

Infinity == [n |-> 1, d |-> 0]

IsNaN(a) == a.n = 0 /\ a.d = 0

IsFinite(a) == a.d # 0

\* a + b
RAdd(a, b) ==
    IF a.d = 0 /\ b.d = 0
    THEN (IF a.n = b.n THEN a ELSE NaN)
    ELSE Norm(a.n * b.d + b.n * a.d, a.d * b.d)

RNeg(a) == [n |-> -a.n, d |-> a.d]

\* a - b
RSub(a, b) == RAdd(a, RNeg(b))

\* a * b
RMul(a, b) == Norm(a.n * b.n, a.d * b.d)

\* 1 / a
RInv(a) == IF a.n < 0 THEN Norm(-a.d, -a.n) ELSE Norm(a.d, a.n)

\* a / b
RDiv(a, b) == RMul(a, RInv(b))

\* a < b (false when either side is NaN)
RLt(a, b) ==
    /\ ~IsNaN(a)
    /\ ~IsNaN(b)
    /\ IF a.d = 0 \/ b.d = 0
       THEN (IF a.d = 0 /\ b.d = 0 THEN a.n < b.n
             ELSE IF a.d = 0 THEN a.n < 0 ELSE b.n > 0)
       ELSE a.n * b.d < b.n * a.d

\* a <= b (false when either side is NaN)
RLe(a, b) == ~IsNaN(a) /\ ~IsNaN(b) /\ ~RLt(b, a)

\* Math.max(a, b)
RMax(a, b) ==
    IF IsNaN(a) \/ IsNaN(b) THEN NaN
    ELSE IF RLt(a, b) THEN b ELSE a

\* Math.abs(a)
RAbs(a) == [n |-> Abs(a.n), d |-> a.d]

\* a === 0
IsZero(a) == a.n = 0 /\ a.d # 0

\* array.reduce((sum, x) => sum + x, 0)
RECURSIVE RSum(_)
RSum(s) == IF s = <<>> THEN R(0) ELSE RAdd(RSum(SubSeq(s, 1, Len(s) - 1)), s[Len(s)])

\* ------------------------------------------------------------------
\* Constants (per-household rates)
\* ------------------------------------------------------------------

CARDBOARD_PER_HOUSEHOLD_PER_WEEK == 6

FOOD_WASTE_PER_HOUSEHOLD_PER_WEEK == 2

WEEKS_PER_MONTH == 4

INPUT_TO_OUTPUT_RATIO == Frac(200, 480)

TEA_CONCENTRATE_BASE == 20

TEA_DILUTION_RATIO == 10

\* ------------------------------------------------------------------
\* Equipment & capital costs
\* ------------------------------------------------------------------

EQUIPMENT ==
    [composting |->
        [items |-> << [key |-> "palletBins",  cost |-> 0,   depreciationYears |-> 10],
                      [key |-> "pitchforks",  cost |-> 50,  depreciationYears |-> 5],
                      [key |-> "wheelbarrow", cost |-> 150, depreciationYears |-> 10],
                      [key |-> "buckets",     cost |-> 100, depreciationYears |-> 3],
                      [key |-> "thermometer", cost |-> 30,  depreciationYears |-> 5] >>,
         subtotal |-> 330],
     cardboard |->
        [items |-> << [key |-> "shredder", cost |-> 200, depreciationYears |-> 5] >>,
         subtotal |-> 200],
     wormTea |->
        [items |-> << [key |-> "brewingVat", cost |-> 100, depreciationYears |-> 5],
                      [key |-> "spigots",    cost |-> 30,  depreciationYears |-> 5] >>,
         subtotal |-> 130],
     logistics |->
        [items |-> << [key |-> "zeroTurn", cost |-> 4000, depreciationYears |-> 7],
                      [key |-> "atv",      cost |-> 2500, depreciationYears |-> 10],
                      [key |-> "trailer",  cost |-> 500,  depreciationYears |-> 10] >>,
         subtotal |-> 7000],
     lawnService |->
        [items |-> << [key |-> "backpackBlower", cost |-> 400,  depreciationYears |-> 7],
                      [key |-> "cycloneRake",    cost |-> 2500, depreciationYears |-> 10] >>,
         subtotal |-> 2900]]

\* mutant: the lawn service is added whatever the flag says
calculateStartupCost_ignoreFlag(includeLawnService) ==
    R(EQUIPMENT.composting.subtotal + EQUIPMENT.cardboard.subtotal
        + EQUIPMENT.wormTea.subtotal + EQUIPMENT.logistics.subtotal
        + EQUIPMENT.lawnService.subtotal)

calculateStartupCost(includeLawnService) ==
    LET total == EQUIPMENT.composting.subtotal + EQUIPMENT.cardboard.subtotal
                    + EQUIPMENT.wormTea.subtotal + EQUIPMENT.logistics.subtotal
    IN  R(IF includeLawnService THEN total + EQUIPMENT.lawnService.subtotal ELSE total)

\* mutant: the lawn service is pushed whatever the flag says
DepreciationCategories_alwaysLawn(includeLawnService) ==
    <<"composting", "cardboard", "wormTea", "logistics", "lawnService">>

\* the categories calculateAnnualDepreciation walks, in order
DepreciationCategories(includeLawnService) ==
    IF includeLawnService
    THEN <<"composting", "cardboard", "wormTea", "logistics", "lawnService">>
    ELSE <<"composting", "cardboard", "wormTea", "logistics">>

\* inner loop: depreciation += item.cost / item.depreciationYears
RECURSIVE DepreciateItems(_, _)
DepreciateItems(depreciation, items) ==
    IF items = <<>> THEN depreciation
    ELSE LET item == Head(items)
         IN  DepreciateItems(
                 IF item.depreciationYears # 0
                 THEN RAdd(depreciation, RDiv(R(item.cost), R(item.depreciationYears)))
                 ELSE depreciation,
                 Tail(items))

\* outer loop over the categories
RECURSIVE DepreciateCategories(_, _)
DepreciateCategories(depreciation, categories) ==
    IF categories = <<>> THEN depreciation
    ELSE DepreciateCategories(
             DepreciateItems(depreciation, EQUIPMENT[Head(categories)].items),
             Tail(categories))

calculateAnnualDepreciation(includeLawnService) ==
    DepreciateCategories(R(0), DepreciationCategories(includeLawnService))

\* ------------------------------------------------------------------
\* Input volume calculations
\* ------------------------------------------------------------------

\* mutant: the monthly total multiplies only the cardboard term
calculateInputVolumes_parens(households) ==
    LET cardboardPerWeek == RMul(households, R(CARDBOARD_PER_HOUSEHOLD_PER_WEEK))
        foodWastePerWeek == RMul(households, R(FOOD_WASTE_PER_HOUSEHOLD_PER_WEEK))
    IN  [cardboardPerWeek  |-> cardboardPerWeek,
         foodWastePerWeek  |-> foodWastePerWeek,
         cardboardPerMonth |-> RMul(cardboardPerWeek, R(WEEKS_PER_MONTH)),
         foodWastePerMonth |-> RMul(foodWastePerWeek, R(WEEKS_PER_MONTH)),
         totalPerWeek      |-> RAdd(cardboardPerWeek, foodWastePerWeek),
         totalPerMonth     |-> RAdd(RMul(cardboardPerWeek, R(WEEKS_PER_MONTH)),
                                    foodWastePerWeek)]

calculateInputVolumes(households) ==
    LET cardboardPerWeek == RMul(households, R(CARDBOARD_PER_HOUSEHOLD_PER_WEEK))
        foodWastePerWeek == RMul(households, R(FOOD_WASTE_PER_HOUSEHOLD_PER_WEEK))
    IN  [cardboardPerWeek  |-> cardboardPerWeek,
         foodWastePerWeek  |-> foodWastePerWeek,
         cardboardPerMonth |-> RMul(cardboardPerWeek, R(WEEKS_PER_MONTH)),
         foodWastePerMonth |-> RMul(foodWastePerWeek, R(WEEKS_PER_MONTH)),
         totalPerWeek      |-> RAdd(cardboardPerWeek, foodWastePerWeek),
         totalPerMonth     |-> RMul(RAdd(cardboardPerWeek, foodWastePerWeek),
                                    R(WEEKS_PER_MONTH))]

\* ------------------------------------------------------------------
\* Output volume calculations
\* ------------------------------------------------------------------

\* mutant: the food waste is left out of the total input
calculateOutputVolumes_cardboardOnly(inputs) ==
    LET totalInput == inputs.cardboardPerMonth
        finishedCompostPerMonth == RMul(totalInput, INPUT_TO_OUTPUT_RATIO)
        teaScale == RDiv(finishedCompostPerMonth, R(200))
        teaConcentrate == RMul(R(TEA_CONCENTRATE_BASE), teaScale)
    IN  [finishedCompostPerMonth |-> finishedCompostPerMonth,
         wormTeaConcentrate      |-> teaConcentrate,
         wormTeaDiluted          |-> RMul(teaConcentrate, R(TEA_DILUTION_RATIO))]

\* mutant: the tea concentrate is the base figure, not scaled with the compost
calculateOutputVolumes_teaFixed(inputs) ==
    LET totalInput == RAdd(inputs.cardboardPerMonth, inputs.foodWastePerMonth)
        finishedCompostPerMonth == RMul(totalInput, INPUT_TO_OUTPUT_RATIO)
        teaConcentrate == R(TEA_CONCENTRATE_BASE)
    IN  [finishedCompostPerMonth |-> finishedCompostPerMonth,
         wormTeaConcentrate      |-> teaConcentrate,
         wormTeaDiluted          |-> RMul(teaConcentrate, R(TEA_DILUTION_RATIO))]

calculateOutputVolumes(inputs) ==
    LET totalInput == RAdd(inputs.cardboardPerMonth, inputs.foodWastePerMonth)
        finishedCompostPerMonth == RMul(totalInput, INPUT_TO_OUTPUT_RATIO)
        teaScale == RDiv(finishedCompostPerMonth, R(200))
        teaConcentrate == RMul(R(TEA_CONCENTRATE_BASE), teaScale)
    IN  [finishedCompostPerMonth |-> finishedCompostPerMonth,
         wormTeaConcentrate      |-> teaConcentrate,
         wormTeaDiluted          |-> RMul(teaConcentrate, R(TEA_DILUTION_RATIO))]

\* mutant: the floor at zero is missing
calculateSellableOutput_noFloor(totalCompost, households, givebackPerYear) ==
    LET givebackPerMonth == RDiv(RMul(households, givebackPerYear), R(12))
    IN  RSub(totalCompost, givebackPerMonth)

calculateSellableOutput(totalCompost, households, givebackPerYear) ==
    LET givebackPerMonth == RDiv(RMul(households, givebackPerYear), R(12))
        sellable == RSub(totalCompost, givebackPerMonth)
    IN  RMax(R(0), sellable)

\* ------------------------------------------------------------------
\* Revenue calculations
\* ------------------------------------------------------------------

\* mutant: the compost stream is priced with the tea price
calculateRevenue_wrongPrice(p) ==
    LET subscriptions == RMul(p.households, p.subscriptionPrice)
        compost == RMul(p.sellableCompost, p.teaPrice)
        tea == RMul(p.teaConcentrate, p.teaPrice)
    IN  [subscriptions |-> subscriptions,
         compost       |-> compost,
         tea           |-> tea,
         total         |-> RAdd(RAdd(subscriptions, compost), tea)]

calculateRevenue(p) ==
    LET subscriptions == RMul(p.households, p.subscriptionPrice)
        compost == RMul(p.sellableCompost, p.compostPrice)
        tea == RMul(p.teaConcentrate, p.teaPrice)
    IN  [subscriptions |-> subscriptions,
         compost       |-> compost,
         tea           |-> tea,
         total         |-> RAdd(RAdd(subscriptions, compost), tea)]

\* ------------------------------------------------------------------
\* Labor hour calculations
\* ------------------------------------------------------------------

\* mutant: composting scales linearly like collection
calculateLabor_linearComposting(households) ==
    LET scale == RDiv(households, R(15))
        collection == RMul(R(16), scale)
        cardboard == RMul(R(10), scale)
        composting == RMul(Frac(67, 10), scale)
        tea == RMul(Frac(17, 10), RAdd(Frac(1, 2), RMul(Frac(1, 2), scale)))
        delivery == RMul(R(6), scale)
    IN  [collection |-> collection,
         cardboard  |-> cardboard,
         composting |-> composting,
         tea        |-> tea,
         delivery   |-> delivery,
         total      |-> RAdd(RAdd(RAdd(RAdd(collection, cardboard), composting), tea),
                             delivery)]

calculateLabor(households) ==
    LET scale == RDiv(households, R(15))
        collection == RMul(R(16), scale)
        cardboard == RMul(R(10), scale)
        composting == RMul(Frac(67, 10), RAdd(Frac(1, 2), RMul(Frac(1, 2), scale)))
        tea == RMul(Frac(17, 10), RAdd(Frac(1, 2), RMul(Frac(1, 2), scale)))
        delivery == RMul(R(6), scale)
    IN  [collection |-> collection,
         cardboard  |-> cardboard,
         composting |-> composting,
         tea        |-> tea,
         delivery   |-> delivery,
         total      |-> RAdd(RAdd(RAdd(RAdd(collection, cardboard), composting), tea),
                             delivery)]

\* the own keys of the breakdowns object
BreakdownCategories == {"collection", "cardboard", "composting", "tea", "delivery"}

getTaskBreakdown(category, households) ==
    LET scale == RDiv(households, R(15))
        PerWeek(name, min) ==
            [name |-> name, minPerWeek |-> min,
             hoursPerMonth |-> RMul(RMul(RDiv(R(min), R(60)), R(4)), scale)]
        PerWeekFixed(name, min) ==
            [name |-> name, minPerWeek |-> min,
             hoursPerMonth |-> RMul(RDiv(R(min), R(60)), R(4))]
        PerMonth(name, min, hours) ==
            [name |-> name, minPerMonth |-> min, hoursPerMonth |-> hours]
        breakdowns ==
            [collection |-> << PerWeek("Drive route", 45),
                               PerWeek("Collect food waste buckets", 75),
                               PerWeek("Collect cardboard", 45),
                               PerWeek("Return clean buckets", 45),
                               PerWeek("Bucket cleaning", 30) >>,
             cardboard  |-> << PerWeek("Break down + remove plastic", 90),
                               PerWeek("Shred (90 gal)", 45),
                               PerWeek("Bag/containerize", 15) >>,
             composting |-> << PerWeekFixed("Add materials to Stage 1", 30),
                               PerWeekFixed("Monitor Stages 2-4", 10),
                               PerMonth("Move pile 1->2", 60, R(1)),
                               PerMonth("Move pile 2->3", 60, R(1)),
                               PerMonth("Move pile 3->4", 60, R(1)),
                               PerMonth("Harvest Stage 4", 60, R(1)) >>,
             tea        |-> << PerMonth("Collect castings for brew", 15, Frac(25, 100)),
                               PerMonth("Set up brew", 20, Frac(33, 100)),
                               PerMonth("Load brew vat", 15, Frac(25, 100)),
                               PerMonth("Apply at customer sites", 50, Frac(83, 100)) >>,
             delivery   |-> << PerMonth("Load truck", 60, RMul(R(1), scale)),
                               PerMonth("Customer stops (10x30min)", 300,
                                        RMul(R(5), scale)) >>]
    IN  IF category \in BreakdownCategories THEN breakdowns[category] ELSE <<>>

\* tasks.reduce((sum, t) => sum + t.hoursPerMonth, 0)
TaskHours(tasks) == RSum([i \in 1..Len(tasks) |-> tasks[i].hoursPerMonth])

\* ------------------------------------------------------------------
\* Hourly rate calculation
\* ------------------------------------------------------------------

\* mutant: the guard on zero hours is missing
calculateHourlyRate_noGuard(revenue, hours) == RDiv(revenue, hours)

calculateHourlyRate(revenue, hours) ==
    IF IsZero(hours) THEN R(0) ELSE RDiv(revenue, hours)

\* ------------------------------------------------------------------
\* Full model integration
\* ------------------------------------------------------------------

\* mutant: the compost revenue is computed on the finished compost, before the give-back
calculateFullModel_noGiveback(p) ==
    LET inputs == calculateInputVolumes(p.households)
        outputs == calculateOutputVolumes(inputs)
        sellableCompost == calculateSellableOutput(outputs.finishedCompostPerMonth,
                                                   p.households, p.givebackPerYear)
        revenue == calculateRevenue([households        |-> p.households,
                                     subscriptionPrice |-> p.subscriptionPrice,
                                     compostPrice      |-> p.compostPrice,
                                     teaPrice          |-> p.teaPrice,
                                     sellableCompost   |-> outputs.finishedCompostPerMonth,
                                     teaConcentrate    |-> outputs.wormTeaConcentrate])
        labor == calculateLabor(p.households)
        hourlyRate == calculateHourlyRate(revenue.total, labor.total)
        startupCost == calculateStartupCost(p.includeLawnService)
        annualDepreciation == calculateAnnualDepreciation(p.includeLawnService)
    IN  [inputs     |-> inputs,
         outputs    |-> [finishedCompostPerMonth |-> outputs.finishedCompostPerMonth,
                         wormTeaConcentrate      |-> outputs.wormTeaConcentrate,
                         wormTeaDiluted          |-> outputs.wormTeaDiluted,
                         sellableCompost         |-> sellableCompost],
         revenue    |-> revenue,
         labor      |-> labor,
         hourlyRate |-> hourlyRate,
         capital    |-> [startupCost        |-> startupCost,
                         annualDepreciation |-> annualDepreciation],
         annual     |-> [activeMonths |-> 9,
                         winterMonths |-> 3,
                         revenue      |-> RAdd(RMul(revenue.total, R(9)),
                                               RMul(revenue.subscriptions, R(3))),
                         hours        |-> RAdd(RMul(labor.total, R(9)), R(16 * 3)),
                         hourlyRate   |-> R(0)]]

\* p.includeLawnService carries the default (true) when the caller omits it
calculateFullModel(p) ==
    LET inputs == calculateInputVolumes(p.households)
        outputs == calculateOutputVolumes(inputs)
        sellableCompost == calculateSellableOutput(outputs.finishedCompostPerMonth,
                                                   p.households, p.givebackPerYear)
        revenue == calculateRevenue([households        |-> p.households,
                                     subscriptionPrice |-> p.subscriptionPrice,
                                     compostPrice      |-> p.compostPrice,
                                     teaPrice          |-> p.teaPrice,
                                     sellableCompost   |-> sellableCompost,
                                     teaConcentrate    |-> outputs.wormTeaConcentrate])
        labor == calculateLabor(p.households)
        hourlyRate == calculateHourlyRate(revenue.total, labor.total)
        startupCost == calculateStartupCost(p.includeLawnService)
        annualDepreciation == calculateAnnualDepreciation(p.includeLawnService)
    IN  [inputs     |-> inputs,
         outputs    |-> [finishedCompostPerMonth |-> outputs.finishedCompostPerMonth,
                         wormTeaConcentrate      |-> outputs.wormTeaConcentrate,
                         wormTeaDiluted          |-> outputs.wormTeaDiluted,
                         sellableCompost         |-> sellableCompost],
         revenue    |-> revenue,
         labor      |-> labor,
         hourlyRate |-> hourlyRate,
         capital    |-> [startupCost        |-> startupCost,
                         annualDepreciation |-> annualDepreciation],
         annual     |-> [activeMonths |-> 9,
                         winterMonths |-> 3,
                         revenue      |-> RAdd(RMul(revenue.total, R(9)),
                                               RMul(revenue.subscriptions, R(3))),
                         hours        |-> RAdd(RMul(labor.total, R(9)), R(16 * 3)),
                         hourlyRate   |-> R(0)]]

\* ------------------------------------------------------------------
\* Configuration (config.js): node catalog, edge catalog, layout
\* ------------------------------------------------------------------

\* the keys of config.nodes, in insertion order (the order of Object.values)
NodeOrder ==
    <<"households", "collection", "cardboard", "stage1", "stage2", "stage3",
      "stage4", "tea", "delivery", "customers">>

NodeIds == {NodeOrder[i] : i \in 1..Len(NodeOrder)}

\* config.nodes; icons are written by name
config_nodes ==
    [households |->
        [id |-> "households", label |-> "Households", category |-> "input",
         icon |-> "house", position |-> [x |-> Frac(5, 100), y |-> Frac(1, 2)],
         description |-> "Participating households that provide food waste and cardboard",
         tasks |-> <<>>],
     collection |->
        [id |-> "collection", label |-> "Collection Route", category |-> "labor",
         icon |-> "truck", position |-> [x |-> Frac(18, 100), y |-> Frac(1, 2)],
         description |-> "Weekly pickup of food waste and cardboard from households",
         tasks |-> << [name |-> "Drive route", minPerWeek |-> 45],
                      [name |-> "Collect food waste buckets", minPerWeek |-> 75],
                      [name |-> "Collect cardboard", minPerWeek |-> 45],
                      [name |-> "Return clean buckets", minPerWeek |-> 45],
                      [name |-> "Bucket cleaning", minPerWeek |-> 30] >>],
     cardboard |->
        [id |-> "cardboard", label |-> "Cardboard Processing", category |-> "labor",
         icon |-> "package", position |-> [x |-> Frac(31, 100), y |-> Frac(1, 4)],
         description |-> "Break down, shred, and prepare cardboard for composting",
         tasks |-> << [name |-> "Break down + remove plastic", minPerWeek |-> 90],
                      [name |-> "Shred", minPerWeek |-> 45],
                      [name |-> "Bag/containerize", minPerWeek |-> 15] >>],
     stage1 |->
        [id |-> "stage1", label |-> "Stage 1: Active", category |-> "composting",
         icon |-> "fire", position |-> [x |-> Frac(44, 100), y |-> Frac(1, 2)],
         description |-> "Hot composting phase",
         tasks |-> << [name |-> "Add materials", minPerWeek |-> 30],
                      [name |-> "Monitor temperature", minPerWeek |-> 5] >>],
     stage2 |->
        [id |-> "stage2", label |-> "Stage 2: Cooling", category |-> "composting",
         icon |-> "thermometer", position |-> [x |-> Frac(54, 100), y |-> Frac(1, 2)],
         description |-> "Temperature drops, mesophilic bacteria take over",
         tasks |-> << [name |-> "Move pile from Stage 1", minPerMonth |-> 60],
                      [name |-> "Monitor moisture", minPerWeek |-> 5] >>],
     stage3 |->
        [id |-> "stage3", label |-> "Stage 3: Worms", category |-> "composting",
         icon |-> "worm", position |-> [x |-> Frac(64, 100), y |-> Frac(1, 2)],
         description |-> "Worms enter and process material into castings",
         tasks |-> << [name |-> "Move pile from Stage 2", minPerMonth |-> 60],
                      [name |-> "Maintain wedge connection", minPerMonth |-> 10] >>],
     stage4 |->
        [id |-> "stage4", label |-> "Stage 4: Harvest", category |-> "composting",
         icon |-> "seedling", position |-> [x |-> Frac(74, 100), y |-> Frac(1, 2)],
         description |-> "Spread, expose to light, harvest finished vermicompost",
         tasks |-> << [name |-> "Move pile from Stage 3", minPerMonth |-> 60],
                      [name |-> "Spread and light expose", minPerMonth |-> 30],
                      [name |-> "Harvest castings", minPerMonth |-> 30] >>],
     tea |->
        [id |-> "tea", label |-> "Worm Tea Brewing", category |-> "processing",
         icon |-> "droplet", position |-> [x |-> Frac(74, 100), y |-> Frac(1, 4)],
         description |-> "Brew aerated worm tea from finished castings",
         tasks |-> << [name |-> "Collect castings", minPerMonth |-> 15],
                      [name |-> "Set up brew", minPerMonth |-> 20],
                      [name |-> "Load brew vat", minPerMonth |-> 15],
                      [name |-> "Apply at customer sites", minPerMonth |-> 50] >>],
     delivery |->
        [id |-> "delivery", label |-> "Delivery", category |-> "labor",
         icon |-> "van", position |-> [x |-> Frac(84, 100), y |-> Frac(1, 2)],
         description |-> "Load truck, deliver to customers, apply worm tea",
         tasks |-> << [name |-> "Load truck", minPerMonth |-> 60],
                      [name |-> "Customer stops", minPerMonth |-> 300] >>],
     customers |->
        [id |-> "customers", label |-> "Customers", category |-> "output",
         icon |-> "garden house", position |-> [x |-> Frac(95, 100), y |-> Frac(1, 2)],
         description |-> "External buyers plus subscribers receiving give-back",
         tasks |-> <<>>]]

\* config.edges; icons are written by name
config_edges ==
    << [id |-> "food-households-collection", from |-> "households", to |-> "collection",
        material |-> "food", icon |-> "apple", label |-> "food waste", color |-> "#22c55e"],
       [id |-> "food-collection-stage1", from |-> "collection", to |-> "stage1",
        material |-> "food", icon |-> "apple", label |-> "", color |-> "#22c55e"],
       [id |-> "cardboard-households-collection", from |-> "households", to |-> "collection",
        material |-> "cardboard", icon |-> "package", label |-> "cardboard",
        color |-> "#f59e0b"],
       [id |-> "cardboard-collection-processing", from |-> "collection", to |-> "cardboard",
        material |-> "cardboard", icon |-> "package", label |-> "", color |-> "#f59e0b"],
       [id |-> "cardboard-processing-stage1", from |-> "cardboard", to |-> "stage1",
        material |-> "cardboard", icon |-> "package", label |-> "shredded",
        color |-> "#f59e0b"],
       [id |-> "compost-stage1-stage2", from |-> "stage1", to |-> "stage2",
        material |-> "compost", icon |-> "seedling", label |-> "", color |-> "#84cc16"],
       [id |-> "compost-stage2-stage3", from |-> "stage2", to |-> "stage3",
        material |-> "compost", icon |-> "seedling", label |-> "", color |-> "#84cc16"],
       [id |-> "compost-stage3-stage4", from |-> "stage3", to |-> "stage4",
        material |-> "compost", icon |-> "seedling", label |-> "", color |-> "#84cc16"],
       [id |-> "worms-stage4-stage3", from |-> "stage4", to |-> "stage3",
        material |-> "worms", icon |-> "worm", label |-> "worm migration",
        color |-> "#ec4899"],
       [id |-> "castings-stage4-tea", from |-> "stage4", to |-> "tea",
        material |-> "castings", icon |-> "seedling", label |-> "castings",
        color |-> "#06b6d4"],
       [id |-> "tea-tea-delivery", from |-> "tea", to |-> "delivery",
        material |-> "tea", icon |-> "droplet", label |-> "worm tea", color |-> "#06b6d4"],
       [id |-> "compost-stage4-delivery", from |-> "stage4", to |-> "delivery",
        material |-> "compost", icon |-> "seedling", label |-> "finished compost",
        color |-> "#84cc16"],
       [id |-> "products-delivery-customers", from |-> "delivery", to |-> "customers",
        material |-> "products", icon |-> "seedling", label |-> "", color |-> "#84cc16"] >>

\* config.layout
config_layout ==
    [nodeWidth |-> R(120), nodeHeight |-> R(60), edgeCurve |-> Frac(3, 10),
     padding |-> R(40)]

\* config.defaults
config_defaults ==
    [households |-> R(15), compostPrice |-> R(20), teaPrice |-> R(15),
     subscriptionPrice |-> R(25), givebackPerYear |-> R(10)]

\* ------------------------------------------------------------------
\* Layout calculations (diagram.js)
\* ------------------------------------------------------------------

\* Math.sign(a) for a finite a
RSign(a) == R(Sign(a.n))

\* mutant: the padding is added once but not taken off the usable size
getAbsolutePosition_noInset(relPos, containerWidth, containerHeight) ==
    LET padding == config_layout.padding
    IN  [x |-> RAdd(padding, RMul(relPos.x, containerWidth)),
         y |-> RAdd(padding, RMul(relPos.y, containerHeight))]

getAbsolutePosition(relPos, containerWidth, containerHeight) ==
    LET padding == config_layout.padding
        usableWidth == RSub(containerWidth, RMul(padding, R(2)))
        usableHeight == RSub(containerHeight, RMul(padding, R(2)))
    IN  [x |-> RAdd(padding, RMul(relPos.x, usableWidth)),
         y |-> RAdd(padding, RMul(relPos.y, usableHeight))]

\* Math.tan(Math.atan2(dy, dx)): dy / dx, and 0 for the angle atan2(0, 0) = 0;
\* at dx = 0 the quotient is infinite and its reciprocal 0
TanAtan2(dy, dx) == IF IsZero(dx) /\ IsZero(dy) THEN R(0) ELSE RDiv(dy, dx)

\* |cos(angle)| * halfHeight > |sin(angle)| * halfWidth for angle = atan2(dy, dx):
\* cos and sin are dx / r and dy / r with r > 0 the distance, and 1 and 0 at
\* atan2(0, 0)
CosBeatsSin(dy, dx, halfWidth, halfHeight) ==
    IF IsZero(dx) /\ IsZero(dy)
    THEN RLt(R(0), halfHeight)
    ELSE RLt(RMul(RAbs(dy), halfWidth), RMul(RAbs(dx), halfHeight))

\* mutant: the side test compares against the wrong half extents
getEdgeConnectionPoint_swapped(nodePos, targetPos, nodeWidth, nodeHeight) ==
    LET dx == RSub(targetPos.x, nodePos.x)
        dy == RSub(targetPos.y, nodePos.y)
        halfWidth == RDiv(nodeWidth, R(2))
        halfHeight == RDiv(nodeHeight, R(2))
    IN  IF CosBeatsSin(dy, dx, halfHeight, halfWidth)
        THEN [x |-> RAdd(nodePos.x, RMul(RSign(dx), halfWidth)),
              y |-> RAdd(nodePos.y, RMul(RMul(TanAtan2(dy, dx), RSign(dx)), halfWidth))]
        ELSE [x |-> RAdd(nodePos.x,
                         RMul(RMul(RInv(TanAtan2(dy, dx)), RSign(dy)), halfHeight)),
              y |-> RAdd(nodePos.y, RMul(RSign(dy), halfHeight))]

\* mutant: the slope is taken as dy / dx instead of through the angle
getEdgeConnectionPoint_slope(nodePos, targetPos, nodeWidth, nodeHeight) ==
    LET dx == RSub(targetPos.x, nodePos.x)
        dy == RSub(targetPos.y, nodePos.y)
        halfWidth == RDiv(nodeWidth, R(2))
        halfHeight == RDiv(nodeHeight, R(2))
    IN  IF CosBeatsSin(dy, dx, halfWidth, halfHeight)
        THEN [x |-> RAdd(nodePos.x, RMul(RSign(dx), halfWidth)),
              y |-> RAdd(nodePos.y, RMul(RMul(RDiv(dy, dx), RSign(dx)), halfWidth))]
        ELSE [x |-> RAdd(nodePos.x,
                         RMul(RMul(RDiv(dx, dy), RSign(dy)), halfHeight)),
              y |-> RAdd(nodePos.y, RMul(RSign(dy), halfHeight))]

getEdgeConnectionPoint(nodePos, targetPos, nodeWidth, nodeHeight) ==
    LET dx == RSub(targetPos.x, nodePos.x)
        dy == RSub(targetPos.y, nodePos.y)
        halfWidth == RDiv(nodeWidth, R(2))
        halfHeight == RDiv(nodeHeight, R(2))
    IN  IF CosBeatsSin(dy, dx, halfWidth, halfHeight)
        THEN \* intersects left or right edge
             [x |-> RAdd(nodePos.x, RMul(RSign(dx), halfWidth)),
              y |-> RAdd(nodePos.y, RMul(RMul(TanAtan2(dy, dx), RSign(dx)), halfWidth))]
        ELSE \* intersects top or bottom edge
             [x |-> RAdd(nodePos.x,
                         RMul(RMul(RInv(TanAtan2(dy, dx)), RSign(dy)), halfHeight)),
              y |-> RAdd(nodePos.y, RMul(RSign(dy), halfHeight))]

\* mutant: the control points are offset along y instead of x
generateBezierPath_vertical(start, end, curvature) ==
    LET dy == RSub(end.y, start.y)
    IN  [M  |-> [x |-> start.x, y |-> start.y],
         C1 |-> [x |-> start.x, y |-> RAdd(start.y, RMul(dy, curvature))],
         C2 |-> [x |-> end.x, y |-> RSub(end.y, RMul(dy, curvature))],
         E  |-> [x |-> end.x, y |-> end.y]]

\* the path data "M sx sy C cx1 cy1, cx2 cy2, ex ey", kept as its four points
generateBezierPath(start, end, curvature) ==
    LET dx == RSub(end.x, start.x)
        cx1 == RAdd(start.x, RMul(dx, curvature))
        cy1 == start.y
        cx2 == RSub(end.x, RMul(dx, curvature))
        cy2 == end.y
    IN  [M  |-> [x |-> start.x, y |-> start.y],
         C1 |-> [x |-> cx1, y |-> cy1],
         C2 |-> [x |-> cx2, y |-> cy2],
         E  |-> [x |-> end.x, y |-> end.y]]

\* ------------------------------------------------------------------
\* Rendering (diagram.js): each layer is the sequence of its children
\* ------------------------------------------------------------------

RECURSIVE Concat(_)
\* the children appended by successive forEach callbacks, in order
Concat(seqs) ==
    IF seqs = <<>> THEN <<>> ELSE Head(seqs) \o Concat(Tail(seqs))

\* number.toFixed(digits): the decimal numeral with that many fraction digits,
\* kept as the rational it denotes ("NaN" for NaN, kept as NaN)
toFixed(a, digits) ==
    LET scale == 10 ^ digits
    IN  IF a.d = 0 THEN a
        ELSE LET twice == 2 * a.n * scale + a.d
                 floor == twice \div (2 * a.d)
             IN  Frac(floor, scale)

\* number.toLocaleString(): at most three fraction digits (the grouping commas
\* do not change the number denoted)
toLocaleString(a) == toFixed(a, 3)

\* x || fallback for a number x: 0 and NaN are falsy
OrElse(x, fallback) == IF IsNaN(x) \/ IsZero(x) THEN fallback ELSE x

\* obj?.key for a field read of the state: a missing key reads as undefined,
\* which every use below treats like NaN
Field(obj, key) == IF key \in DOMAIN obj THEN obj[key] ELSE NaN

\* the text of a node's metric line, as its number and unit; a numeral made by
\* toFixed is a non-empty string and so never falls back
getNodeMetric(node, appState) ==
    CASE node.id = "households" ->
             [value |-> OrElse(Field(Field(appState, "inputs"), "households"), R(15)),
              unit |-> "homes"]
      [] node.id = "collection" ->
             [value |-> toFixed(appState.labor.collection, 1), unit |-> "hr/mo"]
      [] node.id = "cardboard" ->
             [value |-> toFixed(appState.labor.cardboard, 1), unit |-> "hr/mo"]
      [] node.id \in {"stage1", "stage2", "stage3"} ->
             [value |-> NaN, unit |-> "3-4 weeks"]
      [] node.id = "stage4" ->
             [value |-> toFixed(appState.outputs.finishedCompostPerMonth, 0),
              unit |-> "gal/mo"]
      [] node.id = "tea" ->
             [value |-> toFixed(appState.outputs.wormTeaConcentrate, 0),
              unit |-> "gal/mo"]
      [] node.id = "delivery" ->
             [value |-> toFixed(appState.labor.delivery, 1), unit |-> "hr/mo"]
      [] node.id = "customers" ->
             [value |-> toLocaleString(appState.revenue.total), unit |-> "$/mo"]

\* one g element per catalog node, in catalog order
renderNodes(appState, width, height) ==
    [i \in 1..Len(NodeOrder) |->
        LET node == config_nodes[NodeOrder[i]]
            pos == getAbsolutePosition(node.position, width, height)
        IN  [class |-> "node", category |-> node.category, nodeId |-> node.id,
             transform |-> pos,
             rect |-> [x |-> RNeg(RDiv(config_layout.nodeWidth, R(2))),
                       y |-> RNeg(RDiv(config_layout.nodeHeight, R(2))),
                       width |-> config_layout.nodeWidth,
                       height |-> config_layout.nodeHeight],
             icon |-> node.icon, label |-> node.label,
             metric |-> getNodeMetric(node, appState)]]

\* mutant: only the source endpoint is looked up before use
renderEdge_fromOnly(edge, width, height) ==
    IF edge.from \notin NodeIds
    THEN [threw |-> FALSE, children |-> <<>>]
    ELSE IF edge.to \notin NodeIds
    THEN [threw |-> TRUE, children |-> <<>>]
    ELSE LET fromPos == getAbsolutePosition(config_nodes[edge.from].position, width, height)
             toPos == getAbsolutePosition(config_nodes[edge.to].position, width, height)
             start == getEdgeConnectionPoint(fromPos, toPos, config_layout.nodeWidth,
                                             config_layout.nodeHeight)
             end == getEdgeConnectionPoint(toPos, fromPos, config_layout.nodeWidth,
                                           config_layout.nodeHeight)
         IN  [threw |-> FALSE,
              children |-> << [class |-> "edge", edgeId |-> edge.id,
                               d |-> generateBezierPath(start, end, config_layout.edgeCurve),
                               stroke |-> edge.color] >>]

\* the body of renderEdges' forEach callback for one edge: the elements it
\* appends, and whether it threw
renderEdge(edge, width, height) ==
    IF edge.from \notin NodeIds \/ edge.to \notin NodeIds
    THEN [threw |-> FALSE, children |-> <<>>]
    ELSE LET fromPos == getAbsolutePosition(config_nodes[edge.from].position, width, height)
             toPos == getAbsolutePosition(config_nodes[edge.to].position, width, height)
             start == getEdgeConnectionPoint(fromPos, toPos, config_layout.nodeWidth,
                                             config_layout.nodeHeight)
             end == getEdgeConnectionPoint(toPos, fromPos, config_layout.nodeWidth,
                                           config_layout.nodeHeight)
             path == [class |-> "edge", edgeId |-> edge.id,
                      d |-> generateBezierPath(start, end, config_layout.edgeCurve),
                      stroke |-> edge.color]
             label == [class |-> "edge-label", edgeId |-> edge.id,
                       x |-> RDiv(RAdd(start.x, end.x), R(2)),
                       y |-> RSub(RDiv(RAdd(start.y, end.y), R(2)), R(10)),
                       textContent |-> edge.label]
         IN  [threw |-> FALSE,
              children |-> IF edge.label # "" THEN <<path, label>> ELSE <<path>>]

\* the layer after a forEach whose callbacks returned r[1], r[2], ...: an
\* exception ends the loop at the callback that threw
Layer(r) ==
    LET bad == {i \in 1..Len(r) : r[i].threw}
        stop == IF bad = {} THEN Len(r) + 1
                ELSE CHOOSE i \in bad : \A j \in bad : i <= j
    IN  [threw |-> bad # {},
         children |-> Concat([i \in 1..(stop - 1) |-> r[i].children])]

\* renderEdges over an edge catalog (config.edges in the application)
renderEdges(edges, width, height) ==
    Layer([i \in 1..Len(edges) |-> renderEdge(edges[i], width, height)])

\* the body of renderFlowIcons' forEach callback; index counts from 0
renderFlowIcon(edge, index, width, height) ==
    IF edge.from \notin NodeIds \/ edge.to \notin NodeIds
    THEN [threw |-> FALSE, children |-> <<>>]
    ELSE LET fromPos == getAbsolutePosition(config_nodes[edge.from].position, width, height)
             toPos == getAbsolutePosition(config_nodes[edge.to].position, width, height)
             start == getEdgeConnectionPoint(fromPos, toPos, config_layout.nodeWidth,
                                             config_layout.nodeHeight)
             end == getEdgeConnectionPoint(toPos, fromPos, config_layout.nodeWidth,
                                           config_layout.nodeHeight)
         IN  [threw |-> FALSE,
              children |-> << [class |-> "flow-icon", edgeId |-> edge.id,
                               textContent |-> edge.icon,
                               offsetPath |-> generateBezierPath(start, end,
                                                                 config_layout.edgeCurve),
                               animationDelay |-> Frac(3 * index, 10)] >>]

\* renderFlowIcons over an edge catalog (config.edges in the application)
renderFlowIcons(edges, width, height) ==
    Layer([i \in 1..Len(edges) |-> renderFlowIcon(edges[i], i - 1, width, height)])

\* the three layers after renderDiagram
renderDiagram(appState, width, height) ==
    [edges |-> renderEdges(config_edges, width, height).children,
     nodes |-> renderNodes(appState, width, height),
     icons |-> renderFlowIcons(config_edges, width, height).children]

\* ------------------------------------------------------------------
\* Application (app.js): state management, display, detail panel
\* ------------------------------------------------------------------

\* the object {...a, ...b}: the keys of both, b's value where both have the key
Spread(a, b) ==
    [k \in DOMAIN a \cup DOMAIN b |-> IF k \in DOMAIN b THEN b[k] ELSE a[k]]

Digits == <<"0", "1", "2", "3", "4", "5", "6", "7", "8", "9">>

DigitValue(c) == (CHOOSE i \in 1..10 : Digits[i] = c) - 1

IsDigit(c) == \E i \in 1..10 : Digits[i] = c

RECURSIVE ParseDigits(_, _, _)
\* reads decimal digits from position i on and stops at the first other character
ParseDigits(chars, i, acc) ==
    IF i > Len(chars) \/ ~IsDigit(chars[i]) THEN acc
    ELSE ParseDigits(chars, i + 1, 10 * acc + DigitValue(chars[i]))

\* parseInt(string, 10) of a string given as its characters (no sign, no
\* leading blanks): the leading digits, NaN when there is none
parseInt(chars) ==
    IF chars = <<>> \/ ~IsDigit(chars[1]) THEN NaN ELSE R(ParseDigits(chars, 1, 0))

\* Math.round(a)
MathRound(a) == toFixed(a, 0)

\* the argument updateState builds for calculateFullModel; includeLawnService
\* is not passed and takes its default
ModelParams(appState) ==
    [households        |-> Field(appState.inputs, "households"),
     compostPrice      |-> Field(appState.inputs, "compostPrice"),
     teaPrice          |-> Field(appState.inputs, "teaPrice"),
     subscriptionPrice |-> Field(appState.inputs, "subscriptionPrice"),
     givebackPerYear   |-> Field(appState.inputs, "givebackPerYear"),
     includeLawnService |-> TRUE]

\* mutant: fields already in state are kept, only missing ones are filled in
updateState_keepOld(appState) ==
    Spread(calculateFullModel(ModelParams(appState)), appState)

\* the state assigned by updateState: {inputs: state.inputs, ...model}
updateState(appState) ==
    Spread([inputs |-> appState.inputs], calculateFullModel(ModelParams(appState)))

\* the texts updateUI writes to the header stats and the annual figures
updateUI(appState) ==
    LET annualRevenue == RAdd(RMul(appState.revenue.total, R(9)),
                              RMul(appState.revenue.subscriptions, R(3)))
        annualHours == RAdd(RMul(appState.labor.total, R(9)),
                            RMul(appState.labor.collection, R(3)))
        annualRate == IF RLt(R(0), annualHours) THEN RDiv(annualRevenue, annualHours)
                      ELSE R(0)
    IN  [statRevenue   |-> toLocaleString(appState.revenue.total),
         statHours     |-> toFixed(appState.labor.total, 1),
         statHourly    |-> MathRound(appState.hourlyRate),
         annualRevenue |-> toLocaleString(annualRevenue),
         annualHours   |-> MathRound(annualHours),
         annualRate    |-> MathRound(annualRate)]

\* mutant: the metric update also moves every node back to the canvas origin
updateMetrics_moves(nodes, appState) ==
    [i \in 1..Len(nodes) |->
        [nodes[i] EXCEPT !.metric = getNodeMetric(config_nodes[nodes[i].nodeId], appState),
                         !.transform = [x |-> R(0), y |-> R(0)]]]

\* the nodes layer after updateMetrics: only the metric text of each node changes
updateMetrics(nodes, appState) ==
    [i \in 1..Len(nodes) |->
        [nodes[i] EXCEPT !.metric = getNodeMetric(config_nodes[nodes[i].nodeId], appState)]]

\* the panel after showNodeDetail(nodeId)
showNodeDetail(pan, nodeId, appState) ==
    IF nodeId \notin NodeIds THEN pan
    ELSE LET node == config_nodes[nodeId]
             tasks == getTaskBreakdown(nodeId, Field(appState.inputs, "households"))
         IN  [hidden       |-> FALSE,
              icon         |-> node.icon,
              title        |-> node.label,
              description  |-> node.description,
              tasks        |-> [i \in 1..Len(tasks) |->
                                   [name |-> tasks[i].name,
                                    time |-> toFixed(tasks[i].hoursPerMonth, 2)]],
              total        |-> IF Len(tasks) > 0 THEN toFixed(TaskHours(tasks), 1)
                               ELSE pan.total,
              totalDisplay |-> IF Len(tasks) > 0 THEN "flex" ELSE "none"]

\* config.capitalCosts
config_capitalCosts ==
    << [item |-> "Shredder", cost |-> 40],
       [item |-> "Buckets (15)", cost |-> 75],
       [item |-> "Aeration pipes (PVC)", cost |-> 30],
       [item |-> "Aquarium pump + airstone", cost |-> 20],
       [item |-> "Initial worms (1 lb)", cost |-> 30],
       [item |-> "Misc (tarp, bags, tools)", cost |-> 50] >>

\* the rows renderCapitalCosts appends to #capital-costs, the total row last
renderCapitalCosts ==
    [i \in 1..(Len(config_capitalCosts) + 1) |->
        IF i <= Len(config_capitalCosts)
        THEN [label |-> config_capitalCosts[i].item,
              amount |-> R(config_capitalCosts[i].cost)]
        ELSE [label |-> "Total Setup",
              amount |-> RSum([j \in 1..Len(config_capitalCosts) |->
                                  R(config_capitalCosts[j].cost)])]]

\* the panel after the close button's click listener
closeClick(pan) == [pan EXCEPT !.hidden = TRUE]

\* the panel after the svg's click listener: target.closest('.node') is the
\* node element, whose data-node-id goes to showNodeDetail
svgClick(pan, target, appState) ==
    IF target.kind = "node" THEN showNodeDetail(pan, target.nodeId, appState) ELSE pan

\* mutant: the outside-click listener does not spare clicks on nodes
documentClick_noNodeCheck(pan, target) ==
    IF target.kind \notin {"panel", "close"}
    THEN [pan EXCEPT !.hidden = TRUE] ELSE pan

\* the panel after the document's click listener (close on click outside)
documentClick(pan, target) ==
    IF target.kind \notin {"panel", "close"} /\ target.kind # "node"
    THEN [pan EXCEPT !.hidden = TRUE] ELSE pan

\* the panel after the document's keydown listener
documentKeydown(pan, key) ==
    IF key = "Escape" THEN [pan EXCEPT !.hidden = TRUE] ELSE pan

\* ------------------------------------------------------------------
\* Draggable-layout variant: Position Store and Interaction Controller
\* (specification sections 4.2 and 4.5; this variant's code is not among
\* the source files)
\* ------------------------------------------------------------------

\* the safe sub-range of a normalized coordinate, and the rounding grid
ClampMin == Frac(5, 100)

ClampMax == Frac(95, 100)

GridPerUnit == 100

\* the displacement, in pixels, beyond which a pointer gesture is a drag
DragThreshold == 5

\* the last-resort position of a node that has neither override nor default
FallbackPosition == [x |-> Frac(1, 2), y |-> Frac(1, 2)]

clamp(v) == IF RLt(v, ClampMin) THEN ClampMin ELSE IF RLt(ClampMax, v) THEN ClampMax ELSE v

\* rounds to the nearest multiple of 1 / GridPerUnit
roundToGrid(v) ==
    Frac((2 * v.n * GridPerUnit + v.d) \div (2 * v.d), GridPerUnit)

\* the pointer's coordinate relative to the canvas rectangle, in 0..1 when inside
normalize(point, rect) ==
    [x |-> RDiv(RSub(point.x, rect.left), rect.width),
     y |-> RDiv(RSub(point.y, rect.top), rect.height)]

\* mutant: the coordinate is rounded but not clamped
dragPosition_noClamp(point, rect) ==
    LET raw == normalize(point, rect)
    IN  [x |-> roundToGrid(raw.x), y |-> roundToGrid(raw.y)]

\* the normalized coordinate written for a live pointer position
dragPosition(point, rect) ==
    LET raw == normalize(point, rect)
    IN  [x |-> roundToGrid(clamp(raw.x)), y |-> roundToGrid(clamp(raw.y))]

\* whether the displacement between two pointer coordinates exceeds the threshold
ExceedsThreshold(a, b) ==
    LET dx == RSub(b.x, a.x)
        dy == RSub(b.y, a.y)
    IN  RLt(R(DragThreshold * DragThreshold), RAdd(RMul(dx, dx), RMul(dy, dy)))

\* setPosition: the override map with {nodeId: {x, y}} merged in
setPosition(map, nodeId, pos) == Spread(map, nodeId :> pos)

\* a coordinate as a decimal numeral with four fraction digits, and back;
\* exact for the multiples of 0.01 that are written
Numeral(v) == [whole |-> v.n \div v.d, fraction |-> ((v.n % v.d) * 10000) \div v.d]

ParseNumeral(t) == Frac(t.whole * 10000 + t.fraction, 10000)

\* the override map as stored text: one entry per node id, ids in catalog order
serialize(map) ==
    LET ids == SelectSeq(NodeOrder, LAMBDA id : id \in DOMAIN map)
    IN  [i \in 1..Len(ids) |->
            [id |-> ids[i], x |-> Numeral(map[ids[i]].x), y |-> Numeral(map[ids[i]].y)]]

\* the override map read from stored text (total: anything else reads as empty)
parse(text) ==
    [id \in {text[i].id : i \in 1..Len(text)} |->
        LET entry == CHOOSE e \in {text[i] : i \in 1..Len(text)} : e.id = id
        IN  [x |-> ParseNumeral(entry.x), y |-> ParseNumeral(entry.y)]]

\* resolvePosition: the override, else the configured default, else the fallback
resolvePosition(map, nodeId) ==
    IF nodeId \in DOMAIN map THEN map[nodeId]
    ELSE IF nodeId \in NodeIds THEN config_nodes[nodeId].position
    ELSE FallbackPosition

\* ------------------------------------------------------------------
\* Calls of the calculator: the function called last, its arguments and
\* what it returned
\* ------------------------------------------------------------------

VARIABLES
    fn, args, ret,          \* the function under call, its arguments, its result
    state,                  \* app.js: the module variable state
    loaded,                 \* whether init() has run and attached the listeners
    panel,                  \* the #node-detail panel and its children
    canvas,                 \* the bounding rectangle of the #diagram svg
    layers,                 \* the children of #edges-layer, #nodes-layer, #icons-layer
    ui,                     \* the text of the header stats and annual figures
    lastParams,             \* the argument of the latest calculateFullModel call
    editMode, drag, overrides, stored, lastWritten   \* draggable-layout variant

calcVars == <<fn, args, ret>>

appVars == <<state, loaded, panel, canvas, layers, ui, lastParams>>

dragVars == <<editMode, drag, overrides, stored, lastWritten>>

vars == <<fn, args, ret, state, loaded, panel, canvas, layers, ui, lastParams,
          editMode, drag, overrides, stored, lastWritten>>

MaxHouseholds == 50

MaxGivebackSteps == 5

MaxCompostSteps == 16

MaxVolumeSteps == 18

MaxRevenueSteps == 16

MaxHourSteps == 250

Households == {R(h) : h \in 0..MaxHouseholds}

CompostPrices == {R(0), R(20), R(40)}

TeaPrices == {R(0), R(15), R(25)}

SubscriptionPrices == {R(0), R(25), R(35)}

Givebacks == {R(5 * k) : k \in 0..MaxGivebackSteps} \cup {R(200)}

CompostVolumes == {Frac(25 * k, 2) : k \in 0..MaxCompostSteps}

InputVolumes == {R(40 * k) : k \in 0..MaxVolumeSteps}

SellableVolumes == {R(0), R(185), Frac(375, 2)}

TeaVolumes == {R(0), R(20)}

Revenues == {R(125 * k) : k \in 0..MaxRevenueSteps}

Hours == {Frac(k, 5) : k \in 0..MaxHourSteps}

\* the keys of config.nodes that are not keys of the breakdowns object
OtherCategories == {"households", "stage1", "customers"}

CalcInit ==
    /\ fn = "none"
    /\ args = <<>>
    /\ ret = <<>>

\* app.js has been evaluated, init() has not run yet (it waits for the document)
AppLoad ==
    /\ state = [inputs |-> config_defaults]
    /\ loaded = FALSE
    /\ panel = [hidden |-> TRUE, icon |-> "", title |-> "", description |-> "",
                tasks |-> <<>>, total |-> NaN, totalDisplay |-> ""]
    /\ canvas = [width |-> R(0), height |-> R(0)]
    /\ layers = [edges |-> <<>>, nodes |-> <<>>, icons |-> <<>>]
    /\ ui = [texts |-> <<>>, capitalCosts |-> <<>>]
    /\ lastParams = <<>>

\* the draggable-layout variant before any pointer event, with an empty store
DragLoad ==
    /\ editMode = FALSE
    /\ drag = [phase |-> "Idle", target |-> "", down |-> <<>>, detail |-> ""]
    /\ overrides = <<>>
    /\ stored = <<>>
    /\ lastWritten = <<>>

Init == CalcInit /\ AppLoad /\ DragLoad

CallCalculateInputVolumes ==
    /\ fn = "none"
    /\ \E h \in Households :
           /\ fn' = "calculateInputVolumes"
           /\ args' = [households |-> h]
           /\ ret' = calculateInputVolumes(h)
    /\ UNCHANGED <<appVars, dragVars>>

CallCalculateOutputVolumes ==
    /\ fn = "none"
    /\ \E c \in InputVolumes, f \in InputVolumes :
           /\ fn' = "calculateOutputVolumes"
           /\ args' = [inputs |-> [cardboardPerMonth |-> c, foodWastePerMonth |-> f]]
           /\ ret' = calculateOutputVolumes(args'.inputs)
    /\ UNCHANGED <<appVars, dragVars>>

CallCalculateSellableOutput ==
    /\ fn = "none"
    /\ \E t \in CompostVolumes, h \in Households, g \in Givebacks :
           /\ fn' = "calculateSellableOutput"
           /\ args' = [totalCompost |-> t, households |-> h, givebackPerYear |-> g]
           /\ ret' = calculateSellableOutput(t, h, g)
    /\ UNCHANGED <<appVars, dragVars>>

CallCalculateRevenue ==
    /\ fn = "none"
    /\ \E h \in Households, sp \in SubscriptionPrices, cp \in CompostPrices,
          tp \in TeaPrices, sc \in SellableVolumes, tc \in TeaVolumes :
           /\ fn' = "calculateRevenue"
           /\ args' = [households |-> h, subscriptionPrice |-> sp, compostPrice |-> cp,
                       teaPrice |-> tp, sellableCompost |-> sc, teaConcentrate |-> tc]
           /\ ret' = calculateRevenue(args')
    /\ UNCHANGED <<appVars, dragVars>>

CallCalculateLabor ==
    /\ fn = "none"
    /\ \E h \in Households :
           /\ fn' = "calculateLabor"
           /\ args' = [households |-> h]
           /\ ret' = calculateLabor(h)
    /\ UNCHANGED <<appVars, dragVars>>

CallGetTaskBreakdown ==
    /\ fn = "none"
    /\ \E c \in BreakdownCategories \cup OtherCategories, h \in Households :
           /\ fn' = "getTaskBreakdown"
           /\ args' = [category |-> c, households |-> h]
           /\ ret' = getTaskBreakdown(c, h)
    /\ UNCHANGED <<appVars, dragVars>>

CallCalculateHourlyRate ==
    /\ fn = "none"
    /\ \E r \in Revenues, h \in Hours :
           /\ fn' = "calculateHourlyRate"
           /\ args' = [revenue |-> r, hours |-> h]
           /\ ret' = calculateHourlyRate(r, h)
    /\ UNCHANGED <<appVars, dragVars>>

CallCalculateStartupCost ==
    /\ fn = "none"
    /\ \E b \in BOOLEAN :
           /\ fn' = "calculateStartupCost"
           /\ args' = [includeLawnService |-> b]
           /\ ret' = calculateStartupCost(b)
    /\ UNCHANGED <<appVars, dragVars>>

CallCalculateAnnualDepreciation ==
    /\ fn = "none"
    /\ \E b \in BOOLEAN :
           /\ fn' = "calculateAnnualDepreciation"
           /\ args' = [includeLawnService |-> b]
           /\ ret' = calculateAnnualDepreciation(b)
    /\ UNCHANGED <<appVars, dragVars>>

CallCalculateFullModel ==
    /\ fn = "none"
    /\ \E h \in Households, cp \in CompostPrices, tp \in TeaPrices,
          sp \in SubscriptionPrices, g \in Givebacks, b \in BOOLEAN :
           /\ fn' = "calculateFullModel"
           /\ args' = [households |-> h, compostPrice |-> cp, teaPrice |-> tp,
                       subscriptionPrice |-> sp, givebackPerYear |-> g,
                       includeLawnService |-> b]
           /\ ret' = calculateFullModel(args')
    /\ UNCHANGED <<appVars, dragVars>>

\* the caller has consumed the result; the next call can be made
Return ==
    /\ fn # "none"
    /\ fn' = "none"
    /\ args' = <<>>
    /\ ret' = <<>>
    /\ UNCHANGED <<appVars, dragVars>>

CalcNext ==
    \/ CallCalculateInputVolumes
    \/ CallCalculateOutputVolumes
    \/ CallCalculateSellableOutput
    \/ CallCalculateRevenue
    \/ CallCalculateLabor
    \/ CallGetTaskBreakdown
    \/ CallCalculateHourlyRate
    \/ CallCalculateStartupCost
    \/ CallCalculateAnnualDepreciation
    \/ CallCalculateFullModel
    \/ Return

CalcSpec == Init /\ [][CalcNext]_vars

\* ------------------------------------------------------------------
\* Calls of the layout and rendering functions
\* ------------------------------------------------------------------

MaxWidthSteps == 2

MaxHeightSteps == 1

MaxOffsetSteps == 3

MaxEdges == 2

\* widths and heights of the svg's bounding rectangle
Widths == {R(640 * k) : k \in 1..MaxWidthSteps}

Heights == {R(600 * k) : k \in 1..MaxHeightSteps}

\* node centres, and offsets from a centre to the other centre
Centres == {[x |-> R(0), y |-> R(0)], [x |-> R(100), y |-> R(50)]}

Offsets == {R(40 * k) : k \in (0 - MaxOffsetSteps)..MaxOffsetSteps}

\* node sizes; config.layout gives the first
NodeSizes ==
    {[w |-> R(120), h |-> R(60)], [w |-> R(40), h |-> R(120)], [w |-> R(80), h |-> R(80)]}

Curvatures == {R(0), Frac(3, 10), Frac(1, 2), R(1)}

\* the normalized positions config.nodes uses
ConfigPositions == {config_nodes[id].position : id \in NodeIds}

\* edges for catalogs other than config.edges: with and without a label, with
\* known and unknown endpoints
TestEdges ==
    {[id |-> "a", from |-> "households", to |-> "collection", material |-> "food",
      icon |-> "apple", label |-> "food waste", color |-> "#22c55e"],
     [id |-> "b", from |-> "stage1", to |-> "stage2", material |-> "compost",
      icon |-> "seedling", label |-> "", color |-> "#84cc16"],
     [id |-> "c", from |-> "greenhouse", to |-> "stage1", material |-> "compost",
      icon |-> "seedling", label |-> "", color |-> "#84cc16"],
     [id |-> "d", from |-> "stage4", to |-> "market", material |-> "compost",
      icon |-> "seedling", label |-> "surplus", color |-> "#84cc16"],
     [id |-> "e", from |-> "greenhouse", to |-> "market", material |-> "tea",
      icon |-> "droplet", label |-> "tea", color |-> "#06b6d4"]}

EdgeCatalogs == UNION {[1..n -> TestEdges] : n \in 0..MaxEdges} \cup {config_edges}

CallGetAbsolutePosition ==
    /\ fn = "none"
    /\ \E pos \in ConfigPositions, w \in Widths, h \in Heights :
           /\ fn' = "getAbsolutePosition"
           /\ args' = [relPos |-> pos, containerWidth |-> w, containerHeight |-> h]
           /\ ret' = getAbsolutePosition(pos, w, h)
    /\ UNCHANGED <<appVars, dragVars>>

CallGetEdgeConnectionPoint ==
    /\ fn = "none"
    /\ \E c \in Centres, dx \in Offsets, dy \in Offsets, size \in NodeSizes :
           LET target == [x |-> RAdd(c.x, dx), y |-> RAdd(c.y, dy)]
           IN  /\ fn' = "getEdgeConnectionPoint"
               /\ args' = [nodePos |-> c, targetPos |-> target,
                           nodeWidth |-> size.w, nodeHeight |-> size.h]
               /\ ret' = getEdgeConnectionPoint(c, target, size.w, size.h)
    /\ UNCHANGED <<appVars, dragVars>>

CallGenerateBezierPath ==
    /\ fn = "none"
    /\ \E start \in Centres, dx \in Offsets, dy \in Offsets, c \in Curvatures :
           LET end == [x |-> RAdd(start.x, dx), y |-> RAdd(start.y, dy)]
           IN  /\ fn' = "generateBezierPath"
               /\ args' = [start |-> start, end |-> end, curvature |-> c]
               /\ ret' = generateBezierPath(start, end, c)
    /\ UNCHANGED <<appVars, dragVars>>

\* renderNodes for the state init() computes from config.defaults
CallRenderNodes ==
    /\ fn = "none"
    /\ \E w \in Widths, h \in Heights :
           LET appState == updateState([inputs |-> config_defaults])
           IN  /\ fn' = "renderNodes"
               /\ args' = [state |-> appState, width |-> w, height |-> h]
               /\ ret' = renderNodes(appState, w, h)
    /\ UNCHANGED <<appVars, dragVars>>

CallRenderEdges ==
    /\ fn = "none"
    /\ \E edges \in EdgeCatalogs, w \in Widths, h \in Heights :
           /\ fn' = "renderEdges"
           /\ args' = [edges |-> edges, width |-> w, height |-> h]
           /\ ret' = renderEdges(edges, w, h)
    /\ UNCHANGED <<appVars, dragVars>>

CallRenderFlowIcons ==
    /\ fn = "none"
    /\ \E edges \in EdgeCatalogs, w \in Widths, h \in Heights :
           /\ fn' = "renderFlowIcons"
           /\ args' = [edges |-> edges, width |-> w, height |-> h]
           /\ ret' = renderFlowIcons(edges, w, h)
    /\ UNCHANGED <<appVars, dragVars>>

DiagNext ==
    \/ CallGetAbsolutePosition
    \/ CallGetEdgeConnectionPoint
    \/ CallGenerateBezierPath
    \/ CallRenderNodes
    \/ CallRenderEdges
    \/ CallRenderFlowIcons
    \/ Return

DiagSpec == Init /\ [][DiagNext]_vars

\* ------------------------------------------------------------------
\* The application: init() and the listeners it attaches
\* ------------------------------------------------------------------

\* the five controls setupInputListeners binds
InputKeys ==
    {"households", "compostPrice", "teaPrice", "subscriptionPrice", "givebackPerYear"}

\* values of the range inputs (e.target.value, as characters), from the ends
\* of config.ranges
ControlValues ==
    [households        |-> {<<"5">>, <<"5", "0">>},
     compostPrice      |-> {<<"4", "0">>},
     teaPrice          |-> {<<"5">>},
     subscriptionPrice |-> {<<"3", "5">>},
     givebackPerYear   |-> {<<"2", "5">>}]

\* where a click can land: on an element of class node inside the svg (its
\* data-node-id may name no catalog node), elsewhere in the svg, inside the
\* panel, on the panel's close button, or elsewhere on the page
ClickTargets ==
    {[kind |-> "node", nodeId |-> id] : id \in NodeIds \cup {"legend"}}
        \cup {[kind |-> k] : k \in {"svg", "panel", "close", "page"}}

Keys == {"Escape", "Enter"}

\* DOMContentLoaded: init(); the panel's hidden class is as the markup has it
AppInitialize ==
    /\ fn = "none"
    /\ ~loaded
    /\ \E w \in Widths, h \in Heights, hid \in BOOLEAN :
           LET s1 == updateState(state)
           IN  /\ state' = s1
               /\ lastParams' = ModelParams(state)
               /\ ui' = [texts |-> updateUI(s1), capitalCosts |-> renderCapitalCosts]
               /\ canvas' = [width |-> w, height |-> h]
               /\ layers' = renderDiagram(s1, w, h)
               /\ panel' = [panel EXCEPT !.hidden = hid]
    /\ loaded' = TRUE
    /\ UNCHANGED <<calcVars, dragVars>>

\* the input listener of the control bound to key, for e.target.value = value
InputOn(key, value) ==
    LET s0 == [state EXCEPT !.inputs = Spread(@, key :> parseInt(value))]
        s1 == updateState(s0)
    IN  /\ loaded
        /\ state' = s1
        /\ lastParams' = ModelParams(s0)
        /\ ui' = [ui EXCEPT !.texts = updateUI(s1)]
        /\ layers' = [layers EXCEPT !.nodes = updateMetrics(@, s1)]
        /\ UNCHANGED <<loaded, panel, canvas, calcVars, dragVars>>

\* an input event of one of the five controls
InputEvent == \E key \in InputKeys : \E value \in ControlValues[key] : InputOn(key, value)

\* a click on target: the listeners of the close button, the svg and the
\* document run in bubbling order
ClickOn(target) ==
    LET p1 == IF target.kind = "close" THEN closeClick(panel) ELSE panel
        p2 == IF target.kind \in {"node", "svg"} THEN svgClick(p1, target, state)
              ELSE p1
    IN  /\ loaded
        /\ panel' = documentClick(p2, target)
        /\ UNCHANGED <<state, loaded, canvas, layers, ui, lastParams, calcVars, dragVars>>

Click == \E target \in ClickTargets : ClickOn(target)

\* a keydown event of key: the document's keydown listener runs
KeydownOn(key) ==
    /\ loaded
    /\ panel' = documentKeydown(panel, key)
    /\ UNCHANGED <<state, loaded, canvas, layers, ui, lastParams, calcVars, dragVars>>

Keydown == \E key \in Keys : KeydownOn(key)

\* mutant: the re-render appends to the layers without clearing them
Resize_accumulates ==
    /\ loaded
    /\ \E w \in Widths, h \in Heights :
           LET fresh == renderDiagram(state, w, h)
           IN  /\ canvas' = [width |-> w, height |-> h]
               /\ layers' = [edges |-> layers.edges \o fresh.edges,
                             nodes |-> layers.nodes \o fresh.nodes,
                             icons |-> layers.icons \o fresh.icons]
    /\ UNCHANGED <<state, loaded, panel, ui, lastParams, calcVars, dragVars>>

\* a resize of the window: the diagram is rendered again
Resize ==
    /\ loaded
    /\ \E w \in Widths, h \in Heights :
           /\ canvas' = [width |-> w, height |-> h]
           /\ layers' = renderDiagram(state, w, h)
    /\ UNCHANGED <<state, loaded, panel, ui, lastParams, calcVars, dragVars>>

Next ==
    \/ AppInitialize
    \/ InputEvent
    \/ Click
    \/ Keydown
    \/ Resize

Spec == Init /\ [][Next]_vars

\* ------------------------------------------------------------------
\* The draggable-layout variant: pointer gestures and the store
\* ------------------------------------------------------------------

MaxPointerSteps == 2

\* the canvas rectangle recorded at pointer-down
DragRect == [left |-> R(0), top |-> R(0), width |-> R(1000), height |-> R(500)]

\* pointer coordinates: inside the canvas, near each other, and off each side
Pointers ==
    {[x |-> R(503), y |-> R(252)], [x |-> R(505), y |-> R(253)],
     [x |-> R(337), y |-> R(0 - 50)]}
        \cup {[x |-> R(600 * k), y |-> R(300 * k)] : k \in 1..MaxPointerSteps}
        \cup {[x |-> R(0 - 100), y |-> R(126)]}

DragTargets == {"stage1", "tea"}

ToggleEditMode ==
    /\ editMode' = ~editMode
    /\ UNCHANGED <<drag, overrides, stored, lastWritten, calcVars, appVars>>

PointerDown ==
    /\ drag.phase = "Idle"
    /\ \E id \in DragTargets, point \in Pointers :
           drag' = [phase |-> "ArmedForClick", target |-> id, down |-> point,
                    detail |-> drag.detail]
    /\ UNCHANGED <<editMode, overrides, stored, lastWritten, calcVars, appVars>>

PointerMove ==
    /\ drag.phase \in {"ArmedForClick", "Dragging"}
    /\ \E point \in Pointers :
           IF editMode /\ (drag.phase = "Dragging" \/ ExceedsThreshold(drag.down, point))
           THEN LET pos == dragPosition(point, DragRect)
                    map == setPosition(overrides, drag.target, pos)
                IN  /\ drag' = [drag EXCEPT !.phase = "Dragging"]
                    /\ overrides' = map
                    /\ stored' = serialize(map)
                    /\ lastWritten' = Spread(lastWritten,
                                             drag.target :> normalize(point, DragRect))
           ELSE UNCHANGED <<drag, overrides, stored, lastWritten>>
    /\ UNCHANGED <<editMode, calcVars, appVars>>

\* a click opens the detail view of the target; a drag ends; a stray
\* pointer-up is a no-op
PointerUp ==
    /\ drag' = [phase |-> "Idle", target |-> "", down |-> <<>>,
                detail |-> IF drag.phase = "ArmedForClick" THEN drag.target
                           ELSE drag.detail]
    /\ UNCHANGED <<editMode, overrides, stored, lastWritten, calcVars, appVars>>

\* the page is loaded again: what was held in memory (edit mode, the drag
\* session, the detail view) is gone, the overrides are read back from the store
Reload ==
    /\ editMode' = FALSE
    /\ drag' = [phase |-> "Idle", target |-> "", down |-> <<>>, detail |-> ""]
    /\ overrides' = parse(stored)
    /\ UNCHANGED <<stored, lastWritten, calcVars, appVars>>

DragNext ==
    \/ ToggleEditMode
    \/ PointerDown
    \/ PointerMove
    \/ PointerUp
    \/ Reload

DragSpec == Init /\ [][DragNext]_vars

\* ------------------------------------------------------------------
\* Properties
\* ------------------------------------------------------------------

\* C1: for every household count h >= 0, calculateInputVolumes(h) has
\* cardboardPerWeek = 6h and foodWastePerWeek = 2h, each monthly figure is 4
\* times its weekly figure (totalPerMonth = 4(6h + 2h)), all fields are 0 at
\* h = 0, and doubling h doubles every field.
C1_InputVolumes ==
    fn = "calculateInputVolumes" =>
        LET h == args.households
            twice == calculateInputVolumes(RMul(R(2), h))
        IN  /\ ret.cardboardPerWeek = RMul(R(6), h)
            /\ ret.foodWastePerWeek = RMul(R(2), h)
            /\ ret.cardboardPerMonth = RMul(R(4), ret.cardboardPerWeek)
            /\ ret.foodWastePerMonth = RMul(R(4), ret.foodWastePerWeek)
            /\ ret.totalPerWeek = RAdd(ret.cardboardPerWeek, ret.foodWastePerWeek)
            /\ ret.totalPerMonth = RMul(R(4), RAdd(RMul(R(6), h), RMul(R(2), h)))
            /\ (h = R(0) => \A f \in DOMAIN ret : ret[f] = R(0))
            /\ \A f \in DOMAIN ret : twice[f] = RMul(R(2), ret[f])

C1_Witness ==
    /\ fn = "calculateInputVolumes"
    /\ args.households = R(15)
    /\ ret.cardboardPerWeek = R(90)
    /\ ret.totalPerMonth = R(480)

\* C2: calculateOutputVolumes is linear in the total monthly input:
\* finishedCompostPerMonth = (cardboardPerMonth + foodWastePerMonth) * 200/480,
\* doubling both inputs doubles it, it depends only on the sum of the two
\* inputs, and 480 gal in gives 200 gal out.
C2_OutputLinear ==
    fn = "calculateOutputVolumes" =>
        LET c == args.inputs.cardboardPerMonth
            f == args.inputs.foodWastePerMonth
            twice == calculateOutputVolumes([cardboardPerMonth |-> RMul(R(2), c),
                                             foodWastePerMonth |-> RMul(R(2), f)])
        IN  /\ ret.finishedCompostPerMonth = RDiv(RMul(RAdd(c, f), R(200)), R(480))
            /\ twice.finishedCompostPerMonth = RMul(R(2), ret.finishedCompostPerMonth)
            /\ \A c2 \in InputVolumes, f2 \in InputVolumes :
                  RAdd(c2, f2) = RAdd(c, f) =>
                      calculateOutputVolumes([cardboardPerMonth |-> c2,
                                              foodWastePerMonth |-> f2])
                          .finishedCompostPerMonth = ret.finishedCompostPerMonth
            /\ (RAdd(c, f) = R(480) => ret.finishedCompostPerMonth = R(200))

C2_Witness ==
    /\ fn = "calculateOutputVolumes"
    /\ args.inputs.cardboardPerMonth = R(120)
    /\ args.inputs.foodWastePerMonth = R(360)
    /\ ret.finishedCompostPerMonth = R(200)

\* C3: for every input, calculateOutputVolumes has wormTeaConcentrate =
\* 20 * finishedCompostPerMonth / 200 and wormTeaDiluted = 10 *
\* wormTeaConcentrate; at the reference input (360 + 120 gal) the concentrate
\* is 20 and the diluted volume 200.
C3_WormTea ==
    fn = "calculateOutputVolumes" =>
        /\ ret.wormTeaConcentrate =
               RDiv(RMul(R(20), ret.finishedCompostPerMonth), R(200))
        /\ ret.wormTeaDiluted = RMul(R(10), ret.wormTeaConcentrate)
        /\ (/\ args.inputs.cardboardPerMonth = R(360)
            /\ args.inputs.foodWastePerMonth = R(120))
               => (ret.wormTeaConcentrate = R(20) /\ ret.wormTeaDiluted = R(200))

C3_Witness ==
    /\ fn = "calculateOutputVolumes"
    /\ args.inputs.cardboardPerMonth = R(720)
    /\ args.inputs.foodWastePerMonth = R(240)
    /\ ret.wormTeaConcentrate = R(40)
    /\ ret.wormTeaDiluted = R(400)

\* C4: for all non-negative totalCompost, households and givebackPerYear,
\* calculateSellableOutput returns max(0, totalCompost - households *
\* givebackPerYear / 12): never negative, 0 whenever the monthly give-back is
\* at least the total produced, and the plain difference otherwise.
C4_SellableNeverNegative ==
    fn = "calculateSellableOutput" =>
        LET givebackPerMonth == RDiv(RMul(args.households, args.givebackPerYear), R(12))
        IN  /\ IsFinite(ret)
            /\ RLe(R(0), ret)
            /\ (RLe(args.totalCompost, givebackPerMonth) => ret = R(0))
            /\ (RLt(givebackPerMonth, args.totalCompost)
                    => ret = RSub(args.totalCompost, givebackPerMonth))

C4_Witness ==
    /\ fn = "calculateSellableOutput"
    /\ args.totalCompost = R(50)
    /\ args.households = R(50)
    /\ args.givebackPerYear = R(25)
    /\ ret = R(0)

\* C5: for all non-negative inputs, calculateRevenue has subscriptions =
\* households * subscriptionPrice, compost = sellableCompost * compostPrice,
\* tea = teaConcentrate * teaPrice and total = subscriptions + compost + tea;
\* setting any one of the three prices to 0 makes that component 0 and leaves
\* the other two components unchanged.
C5_Revenue ==
    fn = "calculateRevenue" =>
        LET noSubscription == calculateRevenue([args EXCEPT !.subscriptionPrice = R(0)])
            noCompost == calculateRevenue([args EXCEPT !.compostPrice = R(0)])
            noTea == calculateRevenue([args EXCEPT !.teaPrice = R(0)])
        IN  /\ ret.subscriptions = RMul(args.households, args.subscriptionPrice)
            /\ ret.compost = RMul(args.sellableCompost, args.compostPrice)
            /\ ret.tea = RMul(args.teaConcentrate, args.teaPrice)
            /\ ret.total = RAdd(RAdd(ret.subscriptions, ret.compost), ret.tea)
            /\ noSubscription.subscriptions = R(0)
            /\ noSubscription.compost = ret.compost
            /\ noSubscription.tea = ret.tea
            /\ noCompost.compost = R(0)
            /\ noCompost.subscriptions = ret.subscriptions
            /\ noCompost.tea = ret.tea
            /\ noTea.tea = R(0)
            /\ noTea.subscriptions = ret.subscriptions
            /\ noTea.compost = ret.compost

C5_Witness ==
    /\ fn = "calculateRevenue"
    /\ args.households = R(15)
    /\ args.subscriptionPrice = R(25)
    /\ args.compostPrice = R(20)
    /\ args.teaPrice = R(15)
    /\ args.sellableCompost = R(185)
    /\ args.teaConcentrate = R(20)
    /\ ret.subscriptions = R(375)
    /\ ret.compost = R(3700)
    /\ ret.tea = R(300)
    /\ ret.total = R(4375)

\* C6: calculateHourlyRate(revenue, hours) returns 0 whenever hours = 0, for
\* any revenue including 0, returns revenue / hours for every hours # 0, and
\* never produces a division-by-zero result (Infinity or NaN).
C6_HourlyRateGuard ==
    fn = "calculateHourlyRate" =>
        /\ (IsZero(args.hours) => ret = R(0))
        /\ (~IsZero(args.hours) => ret = RDiv(args.revenue, args.hours))
        /\ IsFinite(ret)

C6_Witness ==
    /\ fn = "calculateHourlyRate"
    /\ args.revenue = R(1000)
    /\ args.hours = R(0)
    /\ ret = R(0)

C8_Labor ==
    fn = "calculateLabor" =>
        LET scale == RDiv(args.households, R(15))
            half == RAdd(Frac(1, 2), RMul(Frac(1, 2), scale))
        IN  /\ ret.collection = RMul(R(16), scale)
            /\ ret.cardboard = RMul(R(10), scale)
            /\ ret.delivery = RMul(R(6), scale)
            /\ ret.composting = RMul(Frac(67, 10), half)
            /\ ret.tea = RMul(Frac(17, 10), half)
            /\ ret.total = RAdd(RAdd(RAdd(RAdd(ret.collection, ret.cardboard),
                                          ret.composting), ret.tea), ret.delivery)
            /\ DOMAIN ret = {"collection", "cardboard", "composting", "tea",
                             "delivery", "total"}
            /\ (args.households = R(15) =>
                   /\ ret.collection = R(16)
                   /\ ret.cardboard = R(10)
                   /\ ret.composting = Frac(67, 10)
                   /\ ret.tea = Frac(17, 10)
                   /\ ret.delivery = R(6))

C8_Witness ==
    /\ fn = "calculateLabor"
    /\ args.households = R(30)
    /\ ret.collection = R(32)
    /\ ret.composting = Frac(1005, 100)

\* C9: for every category in {collection, cardboard, composting, tea,
\* delivery} and every household count h >= 0, the sum of hoursPerMonth over
\* getTaskBreakdown(category, h) equals the same category's bucket in
\* calculateLabor(h).
C9_BreakdownMatchesLabor ==
    (fn = "getTaskBreakdown" /\ args.category \in BreakdownCategories)
        => TaskHours(ret) = calculateLabor(args.households)[args.category]

\* C10: calculateStartupCost(includeLawnService) equals the sum of the
\* itemized equipment costs of every included category (composting,
\* cardboard, wormTea, logistics, plus lawnService only when the flag is
\* true): each category's stored subtotal equals the sum of its items' costs,
\* giving 10560 with the lawn service and 7660 without it.
C10_StartupCost ==
    fn = "calculateStartupCost" =>
        LET ItemCosts(cat) ==
                RSum([i \in 1..Len(EQUIPMENT[cat].items) |->
                         R(EQUIPMENT[cat].items[i].cost)])
            base == RAdd(RAdd(RAdd(ItemCosts("composting"), ItemCosts("cardboard")),
                              ItemCosts("wormTea")), ItemCosts("logistics"))
        IN  /\ \A cat \in DOMAIN EQUIPMENT : R(EQUIPMENT[cat].subtotal) = ItemCosts(cat)
            /\ ret = (IF args.includeLawnService
                      THEN RAdd(base, ItemCosts("lawnService")) ELSE base)
            /\ ret = (IF args.includeLawnService THEN R(10560) ELSE R(7660))

C10_Witness ==
    /\ fn = "calculateStartupCost"
    /\ args.includeLawnService = FALSE
    /\ ret = R(7660)

\* C11: calculateAnnualDepreciation(flag) equals the sum of cost /
\* depreciationYears over every equipment item of the included categories;
\* switching includeLawnService from true to false in calculateFullModel
\* removes exactly the lawnService items from capital.startupCost and
\* capital.annualDepreciation and changes no other field of the derived model.
C11_Depreciation ==
    LET ItemRates(cat) ==
            RSum([i \in 1..Len(EQUIPMENT[cat].items) |->
                     RDiv(R(EQUIPMENT[cat].items[i].cost),
                          R(EQUIPMENT[cat].items[i].depreciationYears))])
        ItemCosts(cat) ==
            RSum([i \in 1..Len(EQUIPMENT[cat].items) |->
                     R(EQUIPMENT[cat].items[i].cost)])
        base == RAdd(RAdd(RAdd(ItemRates("composting"), ItemRates("cardboard")),
                          ItemRates("wormTea")), ItemRates("logistics"))
    IN  /\ fn = "calculateAnnualDepreciation" =>
               ret = (IF args.includeLawnService
                      THEN RAdd(base, ItemRates("lawnService")) ELSE base)
        /\ fn = "calculateFullModel" =>
               LET with == calculateFullModel([args EXCEPT !.includeLawnService = TRUE])
                   without == calculateFullModel([args EXCEPT !.includeLawnService = FALSE])
               IN  /\ ret = (IF args.includeLawnService THEN with ELSE without)
                   /\ RSub(with.capital.startupCost, without.capital.startupCost)
                          = ItemCosts("lawnService")
                   /\ RSub(with.capital.annualDepreciation,
                           without.capital.annualDepreciation) = ItemRates("lawnService")
                   /\ without.capital.annualDepreciation = base
                   /\ \A f \in DOMAIN with \ {"capital"} : with[f] = without[f]

C11_Witness ==
    /\ fn = "calculateFullModel"
    /\ args.includeLawnService = FALSE
    /\ args.households = R(15)
    /\ ret.capital.startupCost = R(7660)
    /\ ret.capital.annualDepreciation =
           RSub(calculateAnnualDepreciation(TRUE), Frac(2150, 7))


\* the edge ids of the children of a layer that carry the given class, in order
IdsOfClass(children, class) ==
    LET picked == SelectSeq(children, LAMBDA el : el.class = class)
    IN  [i \in 1..Len(picked) |-> picked[i].edgeId]

BothEndpointsPresent(edge) == edge.from \in NodeIds /\ edge.to \in NodeIds

\* the ids of the edges of a catalog with both endpoints present, in order
PresentEdgeIds(edges) ==
    LET picked == SelectSeq(edges, BothEndpointsPresent)
    IN  [i \in 1..Len(picked) |-> picked[i].id]

\* of these, the ids of the edges that carry a label
LabelledEdgeIds(edges) ==
    LET picked == SelectSeq(edges, LAMBDA e : BothEndpointsPresent(e) /\ e.label # "")
    IN  [i \in 1..Len(picked) |-> picked[i].id]

\* C13: for any edge catalog, an edge whose from or to id is not a key of
\* config.nodes yields no path, no label and no flow icon, rendering raises no
\* error, and the edges with both endpoints present yield exactly one path and
\* one flow icon each (and a label exactly when labelled), in catalog order.
C13_MissingEndpoint ==
    /\ fn = "renderEdges" =>
           /\ ~ret.threw
           /\ IdsOfClass(ret.children, "edge") = PresentEdgeIds(args.edges)
           /\ IdsOfClass(ret.children, "edge-label") = LabelledEdgeIds(args.edges)
           /\ \A i \in 1..Len(ret.children) :
                  ret.children[i].class \in {"edge", "edge-label"}
    /\ fn = "renderFlowIcons" =>
           /\ ~ret.threw
           /\ IdsOfClass(ret.children, "flow-icon") = PresentEdgeIds(args.edges)
           /\ Len(ret.children) = Len(PresentEdgeIds(args.edges))

C13_Witness ==
    /\ fn = "renderEdges"
    /\ Len(args.edges) = 2
    /\ args.edges[1].to = "market"
    /\ args.edges[2].id = "a"
    /\ IdsOfClass(ret.children, "edge") = <<"a">>
    /\ Len(ret.children) = 2

\* C14: for two distinct centres and a positive node width and height,
\* getEdgeConnectionPoint returns a point on the perimeter of the rectangle
\* centred at nodePos (on a vertical side within the height, or on a horizontal
\* side within the width) that lies on the ray from nodePos toward targetPos.
C14_OnPerimeterAndRay ==
    (fn = "getEdgeConnectionPoint" /\ args.nodePos # args.targetPos) =>
        LET dx == RSub(args.targetPos.x, args.nodePos.x)
            dy == RSub(args.targetPos.y, args.nodePos.y)
            px == RSub(ret.x, args.nodePos.x)
            py == RSub(ret.y, args.nodePos.y)
            halfWidth == RDiv(args.nodeWidth, R(2))
            halfHeight == RDiv(args.nodeHeight, R(2))
        IN  /\ \/ RAbs(px) = halfWidth /\ RLe(RAbs(py), halfHeight)
               \/ RAbs(py) = halfHeight /\ RLe(RAbs(px), halfWidth)
            /\ RMul(px, dy) = RMul(py, dx)
            /\ RLt(R(0), RAdd(RMul(px, dx), RMul(py, dy)))

C14_Witness ==
    /\ fn = "getEdgeConnectionPoint"
    /\ args.nodePos = [x |-> R(100), y |-> R(50)]
    /\ args.targetPos = [x |-> R(60), y |-> R(170)]
    /\ args.nodeWidth = R(120)
    /\ args.nodeHeight = R(60)
    /\ ret = [x |-> R(90), y |-> R(80)]

\* C15: when nodePos and targetPos are the same point (node width and height
\* positive), getEdgeConnectionPoint returns nodePos itself, both coordinates
\* being finite numbers.
C15_SamePoint ==
    (fn = "getEdgeConnectionPoint" /\ args.nodePos = args.targetPos) =>
        /\ ret = args.nodePos
        /\ IsFinite(ret.x)
        /\ IsFinite(ret.y)

C15_Witness ==
    /\ fn = "getEdgeConnectionPoint"
    /\ args.nodePos = [x |-> R(100), y |-> R(50)]
    /\ args.targetPos = args.nodePos
    /\ ret = [x |-> R(100), y |-> R(50)]


\* whether point p lies strictly inside the node rectangle centred at c
InInterior(p, c) ==
    /\ RLt(RAbs(RSub(p.x, c.x)), RDiv(config_layout.nodeWidth, R(2)))
    /\ RLt(RAbs(RSub(p.y, c.y)), RDiv(config_layout.nodeHeight, R(2)))

\* C16: for every configured edge and every canvas size, the start anchor
\* (computed from the source node) lies outside or on the boundary of the
\* target node's rectangle and the end anchor (computed from the target node)
\* lies outside or on the boundary of the source node's rectangle.
C16_AnchorsOutside ==
    (fn = "renderEdges" /\ args.edges = config_edges) =>
        \A i \in 1..Len(ret.children) :
            ret.children[i].class = "edge" =>
                LET edge == CHOOSE e \in {config_edges[j] : j \in 1..Len(config_edges)} :
                                e.id = ret.children[i].edgeId
                    fromPos == getAbsolutePosition(config_nodes[edge.from].position,
                                                   args.width, args.height)
                    toPos == getAbsolutePosition(config_nodes[edge.to].position,
                                                 args.width, args.height)
                IN  /\ ~InInterior(ret.children[i].d.M, toPos)
                    /\ ~InInterior(ret.children[i].d.E, fromPos)


\* C12: after init() and after any sequence of input events, state is one full
\* snapshot: inputs (the volumes), outputs, revenue, labor and hourlyRate are
\* those of the single calculateFullModel call of the latest updateState, so
\* revenue.total is the sum of the three streams in state and hourlyRate is
\* computed from the revenue.total and labor.total in state.
C12_FullSnapshot ==
    loaded =>
        LET model == calculateFullModel(lastParams)
        IN  /\ state.inputs = model.inputs
            /\ state.outputs = model.outputs
            /\ state.revenue = model.revenue
            /\ state.labor = model.labor
            /\ state.hourlyRate = model.hourlyRate
            /\ state.revenue.total
                   = RAdd(RAdd(state.revenue.subscriptions, state.revenue.compost),
                          state.revenue.tea)
            /\ state.hourlyRate
                   = calculateHourlyRate(state.revenue.total, state.labor.total)

C12_Witness ==
    /\ loaded
    /\ lastParams.households = R(50)
    /\ state.inputs.cardboardPerMonth = R(1200)
    /\ state.labor.collection = RMul(R(16), Frac(50, 15))

\* C17: a click on a node element whose data-node-id is a key of config.nodes
\* leaves the detail panel visible, showing that node's icon, label and
\* description, whatever the panel was before; a click on a node element whose
\* id is not in the catalog changes nothing.
C17_NodeClick ==
    [][\A target \in ClickTargets :
          (target.kind = "node" /\ ClickOn(target)) =>
              IF target.nodeId \in NodeIds
              THEN /\ ~panel'.hidden
                   /\ panel'.icon = config_nodes[target.nodeId].icon
                   /\ panel'.title = config_nodes[target.nodeId].label
                   /\ panel'.description = config_nodes[target.nodeId].description
              ELSE UNCHANGED vars]_vars

C17_Witness ==
    /\ loaded
    /\ ~panel.hidden
    /\ panel.icon = "fire"
    /\ panel.title = "Stage 1: Active"
    /\ panel.description = "Hot composting phase"

\* C18: whenever the panel shows a node after a click, the task breakdown is
\* non-empty with a visible total row if the node's configuration lists at
\* least one task, and empty with the total row hidden only for the nodes
\* configured with no tasks (households, customers).
C18_TasksShown ==
    \A id \in NodeIds :
        (loaded /\ ~panel.hidden /\ panel.title = config_nodes[id].label) =>
            IF Len(config_nodes[id].tasks) > 0
            THEN Len(panel.tasks) > 0 /\ panel.totalDisplay = "flex"
            ELSE Len(panel.tasks) = 0 /\ panel.totalDisplay = "none"

\* the rendered position of every node, and the path data of every edge
NodePositions == [i \in 1..Len(layers.nodes) |-> layers.nodes[i].transform]

EdgePaths ==
    LET paths == SelectSeq(layers.edges, LAMBDA el : el.class = "edge")
    IN  [i \in 1..Len(paths) |-> paths[i].d]

\* C19: no click, input event or key press changes the rendered position of a
\* node or the path of an edge (such a step changes nothing of the diagram
\* but metric texts); a resize renders every node at its configured default
\* position scaled to the new canvas.
C19_OnlyResizeMoves ==
    [][/\ \/ /\ NodePositions' = NodePositions
             /\ EdgePaths' = EdgePaths
             /\ layers'.edges = layers.edges
             /\ layers'.icons = layers.icons
             /\ Len(layers'.nodes) = Len(layers.nodes)
             /\ \A i \in 1..Len(layers.nodes) :
                    [layers'.nodes[i] EXCEPT !.metric = layers.nodes[i].metric]
                        = layers.nodes[i]
          \/ ~(Click \/ Keydown \/ InputEvent)
       /\ \/ \A i \in 1..Len(NodeOrder) :
                  layers'.nodes[i].transform
                      = getAbsolutePosition(config_nodes[NodeOrder[i]].position,
                                            canvas'.width, canvas'.height)
          \/ ~Resize]_vars

C19_Witness ==
    /\ loaded
    /\ lastParams.households = R(50)
    /\ ~panel.hidden
    /\ panel.title = "Collection Route"
    /\ canvas.width = R(1280)
    /\ layers.nodes[2].metric.value = toFixed(RMul(R(16), Frac(50, 15)), 1)
    /\ layers.nodes[2].transform
           = getAbsolutePosition(config_nodes["collection"].position, R(1280), R(600))


\* C20: after a node is dragged, its resolved position read back through a
\* store round-trip is the coordinate last written for it: the pointer
\* coordinate clamped on each axis to [0.05, 0.95] and rounded to the nearest
\* 0.01, not the raw pointer coordinate.
C20_RoundTrip ==
    \A id \in DOMAIN lastWritten :
        LET raw == lastWritten[id]
            back == resolvePosition(parse(stored), id)
        IN  /\ back = [x |-> roundToGrid(clamp(raw.x)), y |-> roundToGrid(clamp(raw.y))]
            /\ RLe(ClampMin, back.x) /\ RLe(back.x, ClampMax)
            /\ RLe(ClampMin, back.y) /\ RLe(back.y, ClampMax)
            /\ (RMul(back.x, R(GridPerUnit))).d = 1
            /\ (RMul(back.y, R(GridPerUnit))).d = 1
            /\ (RLt(raw.x, ClampMin) \/ RLt(ClampMax, raw.y)) => back # raw

C20_Witness ==
    /\ drag.phase = "Idle"
    /\ "stage1" \in DOMAIN lastWritten
    /\ lastWritten["stage1"] = [x |-> Frac(0 - 1, 10), y |-> Frac(126, 500)]
    /\ overrides = parse(stored)
    /\ resolvePosition(overrides, "stage1") = [x |-> Frac(5, 100), y |-> Frac(25, 100)]

\* C21: after init() and after any sequence of input events, state.inputs
\* holds all five parameters, and the latest updateState passed a defined
\* value for each of them to calculateFullModel.
C21_InputsKept ==
    loaded =>
        \A key \in InputKeys :
            /\ key \in DOMAIN state.inputs
            /\ ~IsNaN(state.inputs[key])
            /\ ~IsNaN(lastParams[key])

\* C22: for every household count h >= 0, composting and tea labor are at
\* least half their base hours (3.35 and 0.85, reached at h = 0), so
\* labor.total >= 4.2 > 0; calculateFullModel therefore never takes the
\* zero-hours guard and its hourlyRate is revenue.total / labor.total.
C22_LaborFloor ==
    /\ fn = "calculateLabor" =>
           /\ RLe(Frac(335, 100), ret.composting)
           /\ RLe(Frac(85, 100), ret.tea)
           /\ RLe(Frac(42, 10), ret.total)
           /\ IsZero(args.households) =>
                  /\ ret.composting = Frac(335, 100)
                  /\ ret.tea = Frac(85, 100)
                  /\ ret.total = Frac(42, 10)
    /\ fn = "calculateFullModel" =>
           /\ RLt(R(0), ret.labor.total)
           /\ ret.hourlyRate = RDiv(ret.revenue.total, ret.labor.total)

C22_Witness ==
    /\ fn = "calculateFullModel"
    /\ IsZero(args.households)
    /\ ret.labor.total = Frac(42, 10)
    /\ args.subscriptionPrice = R(25)
    /\ ret.labor.collection = R(0)
    /\ ret.hourlyRate = RDiv(ret.revenue.total, Frac(42, 10))

\* whether every field of a record of numbers is a finite number >= 0
AllDefinedNonNegative(rec) ==
    \A f \in DOMAIN rec : IsFinite(rec[f]) /\ RLe(R(0), rec[f])

\* C23: for all non-negative parameter values (households = 0, a price of 0
\* and a give-back larger than production included), calculateFullModel
\* returns a model whose inputs, outputs, revenue, labor and hourlyRate are all
\* defined and non-negative.
C23_AlwaysDefined ==
    fn = "calculateFullModel" =>
        /\ AllDefinedNonNegative(ret.inputs)
        /\ AllDefinedNonNegative(ret.outputs)
        /\ AllDefinedNonNegative(ret.revenue)
        /\ AllDefinedNonNegative(ret.labor)
        /\ IsFinite(ret.hourlyRate)
        /\ RLe(R(0), ret.hourlyRate)

C23_Witness ==
    /\ fn = "calculateFullModel"
    /\ args.households = R(15)
    /\ args.givebackPerYear = R(200)
    /\ args.compostPrice = R(0)
    /\ RLt(ret.outputs.finishedCompostPerMonth, R(250))
    /\ ret.outputs.sellableCompost = R(0)
    /\ ret.revenue.compost = R(0)

\* C24: for a node at normalized position (x, y) on a W x H canvas the absolute
\* centre is (40 + x * (W - 80), 40 + y * (H - 80)), 40 being the padding; with
\* x, y in [0, 1] and W, H >= 80 it lies inside [40, W - 40] x [40, H - 40];
\* renderNodes places every catalog node at that centre of its configured
\* position.
C24_AbsolutePosition ==
    /\ fn = "getAbsolutePosition" =>
           LET W == args.containerWidth
               H == args.containerHeight
           IN  /\ ret.x = RAdd(R(40), RMul(args.relPos.x, RSub(W, R(80))))
               /\ ret.y = RAdd(R(40), RMul(args.relPos.y, RSub(H, R(80))))
               /\ RLe(R(40), ret.x) /\ RLe(ret.x, RSub(W, R(40)))
               /\ RLe(R(40), ret.y) /\ RLe(ret.y, RSub(H, R(40)))
    /\ fn = "renderNodes" =>
           /\ Len(ret) = Len(NodeOrder)
           /\ \A i \in 1..Len(ret) :
                  LET pos == config_nodes[ret[i].nodeId].position
                  IN  /\ ret[i].nodeId = NodeOrder[i]
                      /\ ret[i].transform.x
                             = RAdd(R(40), RMul(pos.x, RSub(args.width, R(80))))
                      /\ ret[i].transform.y
                             = RAdd(R(40), RMul(pos.y, RSub(args.height, R(80))))

C24_Witness ==
    /\ fn = "getAbsolutePosition"
    /\ args.relPos = [x |-> Frac(31, 100), y |-> Frac(1, 4)]
    /\ args.containerWidth = R(1280)
    /\ args.containerHeight = R(600)
    /\ ret = [x |-> R(412), y |-> R(170)]

\* the data-node-id of every group of the nodes layer, in order
RenderedNodeIds == [i \in 1..Len(layers.nodes) |-> layers.nodes[i].nodeId]

\* C25: after the initial render and after any number of resize events the
\* nodes layer holds exactly one group per catalog node, the edges layer one
\* path per edge with both endpoints present and the icons layer one icon per
\* such edge; the layers are what a single render at the current canvas size
\* produces, so nothing accumulates and a repeated render changes nothing.
C25_RenderRebuilds ==
    loaded =>
        /\ RenderedNodeIds = NodeOrder
        /\ IdsOfClass(layers.edges, "edge") = PresentEdgeIds(config_edges)
        /\ IdsOfClass(layers.icons, "flow-icon") = PresentEdgeIds(config_edges)
        /\ Len(layers.icons) = Len(PresentEdgeIds(config_edges))
        /\ layers = renderDiagram(state, canvas.width, canvas.height)

C25_Witness ==
    /\ loaded
    /\ lastParams.households = R(50)
    /\ canvas = [width |-> R(1280), height |-> R(600)]
    /\ Len(layers.nodes) = 10
    /\ Len(layers.icons) = 13
    /\ Len(layers.edges) = 13 + 7

\* the point at parameter 1/2 of the cubic curve with path data d:
\* (P0 + 3 P1 + 3 P2 + P3) / 8
CubicMidpoint(d) ==
    [x |-> RDiv(RAdd(RAdd(d.M.x, RMul(R(3), d.C1.x)), RAdd(RMul(R(3), d.C2.x), d.E.x)),
                R(8)),
     y |-> RDiv(RAdd(RAdd(d.M.y, RMul(R(3), d.C1.y)), RAdd(RMul(R(3), d.C2.y), d.E.y)),
                R(8))]

\* the midpoint of the chord from the start to the end of path data d
ChordMidpoint(d) ==
    [x |-> RDiv(RAdd(d.M.x, d.E.x), R(2)), y |-> RDiv(RAdd(d.M.y, d.E.y), R(2))]

\* C26: an edge gets a label element exactly when its label is a non-empty
\* string; the label follows the edge's path and sits at the midpoint of the
\* start and end anchors moved up by 10 px; that chord midpoint is the point at
\* parameter 1/2 of the cubic curve generateBezierPath draws between them.
C26_LabelPlacement ==
    /\ fn = "renderEdges" =>
           /\ IdsOfClass(ret.children, "edge-label") = LabelledEdgeIds(args.edges)
           /\ \A i \in 1..Len(ret.children) :
                  ret.children[i].class = "edge-label" =>
                      /\ i > 1
                      /\ ret.children[i - 1].class = "edge"
                      /\ ret.children[i - 1].edgeId = ret.children[i].edgeId
                      /\ ret.children[i].textContent # ""
                      /\ ret.children[i].x = ChordMidpoint(ret.children[i - 1].d).x
                      /\ ret.children[i].y
                             = RSub(ChordMidpoint(ret.children[i - 1].d).y, R(10))
                      /\ ret.children[i].y
                             = RSub(CubicMidpoint(ret.children[i - 1].d).y, R(10))
    /\ fn = "generateBezierPath" => CubicMidpoint(ret) = ChordMidpoint(ret)

C26_Witness ==
    /\ fn = "renderEdges"
    /\ args.edges = config_edges
    /\ args.width = R(1280)
    /\ Len(ret.children) = 20
    /\ ret.children[2].class = "edge-label"
    /\ ret.children[2].textContent = "food waste"
    /\ ret.children[2].y = RSub(getAbsolutePosition(config_nodes["households"].position,
                                                      R(1280), R(600)).y, R(10))

\* whether path data d is the cubic from its start to its end whose control
\* points are offset horizontally by curvature c times the x distance
HasCurvature(d, c) ==
    LET dx == RSub(d.E.x, d.M.x)
    IN  /\ d.C1 = [x |-> RAdd(d.M.x, RMul(c, dx)), y |-> d.M.y]
        /\ d.C2 = [x |-> RSub(d.E.x, RMul(c, dx)), y |-> d.E.y]

\* C27: for every start, end and curvature c, generateBezierPath gives the
\* cubic from start to end with first control point
\* (start.x + c * (end.x - start.x), start.y) and second control point
\* (end.x - c * (end.x - start.x), end.y); every edge path and every flow
\* icon's offset path is drawn with the curvature config.layout.edgeCurve = 0.3.
C27_Curvature ==
    /\ fn = "generateBezierPath" =>
           /\ ret.M = args.start
           /\ ret.E = args.end
           /\ HasCurvature(ret, args.curvature)
    /\ fn = "renderEdges" =>
           \A i \in 1..Len(ret.children) :
               ret.children[i].class = "edge" =>
                   HasCurvature(ret.children[i].d, Frac(3, 10))
    /\ fn = "renderFlowIcons" =>
           /\ \A i \in 1..Len(ret.children) :
                  HasCurvature(ret.children[i].offsetPath, Frac(3, 10))
           /\ [i \in 1..Len(ret.children) |-> ret.children[i].offsetPath]
                  = LET paths == SelectSeq(renderEdges(args.edges, args.width,
                                                       args.height).children,
                                           LAMBDA el : el.class = "edge")
                    IN  [i \in 1..Len(paths) |-> paths[i].d]

C27_Witness ==
    /\ fn = "generateBezierPath"
    /\ args.start = [x |-> R(100), y |-> R(50)]
    /\ args.end = [x |-> R(20), y |-> R(170)]
    /\ args.curvature = Frac(3, 10)
    /\ ret.C1 = [x |-> R(76), y |-> R(50)]
    /\ ret.C2 = [x |-> R(44), y |-> R(170)]

\* the reference parameter set of the README and the integration test
IsReferenceCall ==
    /\ fn = "calculateFullModel"
    /\ args.households = R(15)
    /\ args.compostPrice = R(20)
    /\ args.teaPrice = R(15)
    /\ args.subscriptionPrice = R(25)
    /\ args.givebackPerYear = R(10)

C29_AnnualAgrees ==
    fn = "calculateFullModel" =>
        LET annualHours == RAdd(RMul(ret.labor.total, R(9)),
                                RMul(ret.labor.collection, R(3)))
            annualRate == IF RLt(R(0), ret.annual.hours)
                          THEN RDiv(ret.annual.revenue, ret.annual.hours)
                          ELSE R(0)
        IN  /\ ret.annual.hours = annualHours
            /\ ret.annual.hourlyRate = annualRate
            /\ MathRound(ret.annual.hours) = updateUI(ret).annualHours
            /\ MathRound(ret.annual.hourlyRate) = updateUI(ret).annualRate

\* the click targets that are neither inside the panel nor on a node element
OutsideTargets == {target \in ClickTargets : target.kind \notin {"node", "panel", "close"}}

\* the click targets on a node element of the catalog
CatalogNodeTargets == {target \in ClickTargets : target.kind = "node" /\ target.nodeId \in NodeIds}

\* C30: the panel is hidden after a press of Escape, a click on the close
\* button or a click neither inside the panel nor on a node; a click on a
\* catalog node leaves it visible; a click on any other node element or inside
\* the panel (other than the close button) leaves its visibility as it was;
\* once the page is loaded the panel becomes visible only by a click on a
\* catalog node and becomes hidden only by one of the three hiding events, so
\* its visibility is that set by the last of these events.
C30_PanelVisibility ==
    [][/\ \A target \in ClickTargets :
              \/ IF target \in CatalogNodeTargets THEN ~panel'.hidden
                 ELSE IF target.kind \in {"node", "panel"}
                      THEN panel'.hidden = panel.hidden
                      ELSE panel'.hidden
              \/ ~ClickOn(target)
       /\ panel'.hidden \/ ~KeydownOn("Escape")
       /\ \/ ~loaded
          \/ panel'.hidden = panel.hidden
          \/ IF panel'.hidden
             THEN \/ KeydownOn("Escape")
                  \/ \E target \in OutsideTargets \cup {[kind |-> "close"]} : ClickOn(target)
             ELSE \E target \in CatalogNodeTargets : ClickOn(target)]_vars

C30_Witness ==
    /\ loaded
    /\ panel.hidden
    /\ panel.title = "Stage 1: Active"
    /\ panel.icon = "fire"

====
